---- MODULE Spec2Model ----
(***************************************************************************)
(* Product search of the WhatsApp shop assistant: the brand normaliser,   *)
(* the keyword and price-range searches of text_search_api.py, the HTTP   *)
(* operations that wrap them, and the chat path of main.py that calls     *)
(* them.  Text is a sequence of one-character strings, so that lower(),   *)
(* strip(), split(), substring tests and the regular expressions built    *)
(* from the keywords are computed and not assumed.                         *)
(***************************************************************************)
EXTENDS Integers, Sequences, FiniteSets, TLC

\* an optional argument is None or Some(value)
None == <<>>
Some(v) == <<v>>
IsNone(x) == x = None
Get(x) == x[1]

(***************************************************************************)
(* Text helpers (Python str methods)                                       *)
(***************************************************************************)
UpperLetters ==
   <<"A","B","C","D","E","F","G","H","I","J","K","L","M",
     "N","O","P","Q","R","S","T","U","V","W","X","Y","Z">>

LowerLetters ==
   <<"a","b","c","d","e","f","g","h","i","j","k","l","m",
     "n","o","p","q","r","s","t","u","v","w","x","y","z">>

Uppercase == { UpperLetters[i] : i \in 1..26 }

UpperToLower ==
   [c \in Uppercase |-> LowerLetters[CHOOSE i \in 1..26 : UpperLetters[i] = c]]

\* str.lower() on one character
LowerChar(c) == IF c \in Uppercase THEN UpperToLower[c] ELSE c

\* str.lower()
Lower(s) == [i \in 1..Len(s) |-> LowerChar(s[i])]

IsSpace(c) == c = " "

\* str.strip(): drop leading and trailing whitespace
RECURSIVE LStrip(_)
LStrip(s) ==
   IF s # <<>> /\ IsSpace(Head(s)) THEN LStrip(Tail(s)) ELSE s

RECURSIVE RStrip(_)
RStrip(s) ==
   IF s # <<>> /\ IsSpace(s[Len(s)]) THEN RStrip(SubSeq(s, 1, Len(s) - 1)) ELSE s

Strip(s) == RStrip(LStrip(s))

\* str.split() without argument: maximal runs of non-whitespace characters
RECURSIVE SplitFrom(_, _, _)
SplitFrom(s, cur, acc) ==
   IF s = <<>>
   THEN IF cur = <<>> THEN acc ELSE Append(acc, cur)
   ELSE IF IsSpace(Head(s))
        THEN SplitFrom(Tail(s), <<>>, IF cur = <<>> THEN acc ELSE Append(acc, cur))
        ELSE SplitFrom(Tail(s), Append(cur, Head(s)), acc)

Split(s) == SplitFrom(s, <<>>, <<>>)

\* t occurs in s at offset i (0-based), compared exactly
OccursAt(t, s, i) ==
   /\ i + Len(t) <= Len(s)
   /\ SubSeq(s, i + 1, i + Len(t)) = t

\* Python "t in s" for strings
IsSubstring(t, s) == \E i \in 0..(Len(s) - Len(t)) : OccursAt(t, s, i)

\* str.endswith
EndsWith(s, c) == s # <<>> /\ s[Len(s)] = c

(***************************************************************************)
(* Brand normaliser                                                        *)
(***************************************************************************)
\* The brand table in its source order, as <<user name, database name>>
BRAND_MAPPING ==
   <<
      << <<"f", "o", "s", "s", "i", "l">>,
         <<"f", "o", "s", "s", "i", "_", "l">> >>,
      << <<"t", "i", "s", "s", "o", "t">>,
         <<"t", "i", "s", "s", "o", "_", "t">> >>,
      << <<"a", "r", "m", "a", "n", "i">>,
         <<"a", "r", "m", "a", "n", "_", "i">> >>,
      << <<"t", "o", "m", "m", "y">>,
         <<"t", "o", "m", "m", "_", "y">> >>,
      << <<"t", "o", "m", "m", "y", " ", "h", "i", "l", "f", "i", "g", "e", "r">>,
         <<"t", "o", "m", "m", "_", "y">> >>,
      << <<"r", "o", "l", "e", "x">>,
         <<"r", "o", "l", "e", "_", "x">> >>,
      << <<"r", "a", "d", "o">>,
         <<"r", "a", "d", "_", "o">> >>,
      << <<"o", "m", "e", "g", "a">>,
         <<"o", "m", "e", "g", "_", "a">> >>,
      << <<"p", "a", "t", "e", "k">>,
         <<"P", "a", "t", "e", "k", "_", "P", "h", "i", "l", "i", "p", "p", "e">> >>,
      << <<"p", "a", "t", "e", "k", " ", "p", "h", "i", "l", "i", "p", "p", "e">>,
         <<"P", "a", "t", "e", "k", "_", "P", "h", "i", "l", "i", "p", "p", "e">> >>,
      << <<"p", "a", "t", "e", "k", " ", "p", "h", "i", "l", "l", "i", "p", "s">>,
         <<"P", "a", "t", "e", "k", "_", "P", "h", "i", "l", "i", "p", "p", "e">> >>,
      << <<"h", "u", "b", "l", "o", "t">>,
         <<"h", "u", "b", "l", "o", "_", "t">> >>,
      << <<"c", "a", "r", "t", "i", "e", "r">>,
         <<"c", "a", "r", "t", "i", "e", "_", "r">> >>,
      << <<"a", "p">>,
         <<"A", "u", "d", "e", "m", "a", "r", "s">> >>,
      << <<"a", "u", "d", "e", "m", "a", "r", "s">>,
         <<"A", "u", "d", "e", "m", "a", "r", "s">> >>,
      << <<"t", "a", "g">>,
         <<"t", "a", "g">> >>,
      << <<"t", "a", "g", " ", "h", "e", "u", "e", "r">>,
         <<"t", "a", "g">> >>,
      << <<"t", "a", "g", " ", "h", "u", "e", "r">>,
         <<"t", "a", "g">> >>,
      << <<"m", "k">>,
         <<"m", "i", "c">> >>,
      << <<"m", "i", "c", "h", "a", "e", "l", " ", "k", "o", "r", "s">>,
         <<"m", "i", "c">> >>,
      << <<"a", "l", "i", "x">>,
         <<"a", "l", "i", "x">> >>,
      << <<"n", "a", "v", "i", "f", "o", "r", "c", "e">>,
         <<"n", "a", "v", "i", "f", "o", "r", "c", "e">> >>,
      << <<"r", "e", "w", "a", "r", "d">>,
         <<"r", "e", "w", "a", "r", "d">> >>,
      << <<"a", "x">>,
         <<"a", "x">> >>,
      << <<"a", "r", "m", "a", "n", "i", " ", "e", "x", "c", "h", "a", "n", "g", "e">>,
         <<"a", "r", "m", "a", "n", "_", "i">> >>
   >>

BrandKey(i) == BRAND_MAPPING[i][1]
BrandValue(i) == BRAND_MAPPING[i][2]

\* BrandScan answering the user name of the entry found, not its db name
RECURSIVE BrandScan_user_name(_, _, _)
BrandScan_user_name(keyword, keyword_lower, i) ==
   IF i > Len(BRAND_MAPPING)
   THEN keyword
   ELSE IF IsSubstring(BrandKey(i), keyword_lower) \/ IsSubstring(keyword_lower, BrandKey(i))
   THEN BrandKey(i)
   ELSE BrandScan_user_name(keyword, keyword_lower, i + 1)

\* BrandScan testing "user_name in keyword_lower" only
RECURSIVE BrandScan_one_direction(_, _, _)
BrandScan_one_direction(keyword, keyword_lower, i) ==
   IF i > Len(BRAND_MAPPING)
   THEN keyword
   ELSE IF IsSubstring(BrandKey(i), keyword_lower)
        THEN BrandValue(i)
        ELSE BrandScan_one_direction(keyword, keyword_lower, i + 1)

\* the loop "for user_name, db_name in BRAND_MAPPING.items()" from entry i on
RECURSIVE BrandScan(_, _, _)
BrandScan(keyword, keyword_lower, i) ==
   IF i > Len(BRAND_MAPPING)
   THEN keyword
   ELSE IF IsSubstring(BrandKey(i), keyword_lower) \/ IsSubstring(keyword_lower, BrandKey(i))
        THEN BrandValue(i)
        ELSE BrandScan(keyword, keyword_lower, i + 1)

\* normalize_brand_name that applies no mapping
normalize_brand_name_unmapped(keyword) == keyword

normalize_brand_name(keyword) ==
   LET keyword_lower == Strip(Lower(keyword))
   IN  IF \E i \in 1..Len(BRAND_MAPPING) : BrandKey(i) = keyword_lower
       THEN BrandValue(CHOOSE i \in 1..Len(BRAND_MAPPING) : BrandKey(i) = keyword_lower)
       ELSE BrandScan(keyword, keyword_lower, 1)

GENERIC_TYPES ==
   << <<"w","a","t","c","h">>, <<"w","a","t","c","h","e","s">>,
      <<"s","h","o","e">>, <<"s","h","o","e","s">>,
      <<"b","a","g">>, <<"b","a","g","s">>,
      <<"s","u","n","g","l","a","s","s">>,
      <<"s","u","n","g","l","a","s","s","e","s">> >>

is_generic_type(keyword) ==
   \E i \in 1..Len(GENERIC_TYPES) : GENERIC_TYPES[i] = Lower(keyword)

(***************************************************************************)
(* Catalog store (the MongoDB collection "products")                       *)
(***************************************************************************)
Digits == <<"0","1","2","3","4","5","6","7","8","9">>

IsDigit(c) == \E i \in 1..10 : Digits[i] = c

DigitValue(c) == (CHOOSE i \in 1..10 : Digits[i] = c) - 1

RECURSIVE ParseDigits(_, _)
ParseDigits(s, acc) ==
   IF s = <<>> THEN acc ELSE ParseDigits(Tail(s), 10 * acc + DigitValue(Head(s)))

\* {"$toDouble": "$price"}: the text of the price field read as a number,
\* Some(number); for text that is not a number the conversion fails, None,
\* and the store fails the query
ToDouble(price) ==
   IF price # <<>> /\ \A i \in 1..Len(price) : IsDigit(price[i])
   THEN Some(ParseDigits(price, 0))
   ELSE None

\* a compiled pattern is its literal text plus the optional suffix "e?s?"
Pattern(lit, opt) == [lit |-> lit, opt |-> opt]

\* what "e?s?" can consume at offset i of the text
OptionalSuffixAt(text, i) ==
   \E suffix \in { <<>>, <<"e">>, <<"s">>, <<"e","s">> } : OccursAt(suffix, text, i)

\* the pattern matches the text somewhere, letter case as written
MatchesSomewhere(lit, opt, text) ==
   \E i \in 0..Len(text) :
      /\ OccursAt(lit, text, i)
      /\ opt => OptionalSuffixAt(text, i + Len(lit))

\* {"name": {"$regex": pattern}} with re.IGNORECASE: an unanchored match
\* that ignores letter case
RegexSearch(pattern, name) ==
   MatchesSomewhere(Lower(pattern.lit), pattern.opt, Lower(name))

RegexCond(pattern) == [kind |-> "regex", pattern |-> pattern]
CategoryCond(key) == [kind |-> "category_key", value |-> key]
ExprCond(comparisons) == [kind |-> "expr", comparisons |-> comparisons]
Gte(bound) == [op |-> "gte", bound |-> bound]
Lte(bound) == [op |-> "lte", bound |-> bound]

\* one comparison of {"$expr": {"$and": [...]}} on a document
CompareHolds(cmp, doc) ==
   IF cmp.op = "gte" THEN Get(ToDouble(doc.price)) >= cmp.bound
                     ELSE Get(ToDouble(doc.price)) <= cmp.bound

\* one condition of the filter on a document
CondHolds(cond, doc) ==
   CASE cond.kind = "regex" -> RegexSearch(cond.pattern, doc.name)
     [] cond.kind = "category_key" -> doc.category_key = cond.value
     [] cond.kind = "expr" ->
           \A k \in 1..Len(cond.comparisons) : CompareHolds(cond.comparisons[k], doc)

\* the filter {"$and": conditions} on a document
DocMatches(conditions, doc) ==
   \A k \in 1..Len(conditions) : CondHolds(conditions[k], doc)

\* the store cannot evaluate the filter: $toDouble meets a price that is no number
QueryFails(conditions, docs) ==
   \E k \in 1..Len(conditions) :
      /\ conditions[k].kind = "expr"
      /\ conditions[k].comparisons # <<>>
      /\ \E d \in 1..Len(docs) : IsNone(ToDouble(docs[d].price))

\* cursor.limit(n): 0 means no limit, a negative n limits to its absolute value
Limit(docs, n) ==
   IF n = 0 THEN docs
   ELSE LET m == IF n < 0 THEN 0 - n ELSE n
        IN  SubSeq(docs, 1, IF m < Len(docs) THEN m ELSE Len(docs))

\* collection.find(filter).limit(n) over the documents in store order
Find(conditions, docs, n) ==
   Limit(SelectSeq(docs, LAMBDA doc : DocMatches(conditions, doc)), n)

(***************************************************************************)
(* Keyword search: search_products_by_text                                 *)
(***************************************************************************)
\* Python truthiness of an optional string argument: neither None nor ""
Truthy(x) == ~IsNone(x) /\ Get(x) # <<>>

RECURSIVE MapLowerStrip(_)
MapLowerStrip(words) ==
   IF words = <<>> THEN <<>>
   ELSE <<Lower(Strip(Head(words)))>> \o MapLowerStrip(Tail(words))

\* [kw.strip().lower() for kw in query.strip().split() if len(kw.strip()) > 1]
Tokenize(query) ==
   MapLowerStrip(SelectSeq(Split(Strip(query)), LAMBDA kw : Len(Strip(kw)) > 1))

\* EssentialFrom skipping a generic type also when it is the only keyword
RECURSIVE EssentialFrom_always_skip(_, _)
EssentialFrom_always_skip(keywords, i) ==
   IF i > Len(keywords) THEN <<>>
   ELSE LET normalized == normalize_brand_name(keywords[i])
        IN  IF is_generic_type(normalized)
            THEN EssentialFrom_always_skip(keywords, i + 1)
            ELSE <<normalized>> \o EssentialFrom_always_skip(keywords, i + 1)

\* the loop over keywords: normalise, skip generic types of a multi-word query
RECURSIVE EssentialFrom(_, _)
EssentialFrom(keywords, i) ==
   IF i > Len(keywords) THEN <<>>
   ELSE LET normalized == normalize_brand_name(keywords[i])
        IN  IF is_generic_type(normalized) /\ Len(keywords) > 1
            THEN EssentialFrom(keywords, i + 1)
            ELSE <<normalized>> \o EssentialFrom(keywords, i + 1)

essential_keywords(keywords) == EssentialFrom(keywords, 1)

PluralWords ==
   { <<"w","a","t","c","h">>, <<"s","h","o","e">>, <<"b","a","g">>,
     <<"g","l","a","s","s">>, <<"s","u","n","g","l","a","s","s">> }

\* the pattern compiled for one keyword
BuildPattern(keyword) ==
   IF EndsWith(keyword, "s")
   THEN Pattern(SubSeq(keyword, 1, Len(keyword) - 1), TRUE)
   ELSE IF keyword \in PluralWords
        THEN Pattern(keyword, TRUE)
        ELSE Pattern(keyword, FALSE)

\* NameConditions keeping the condition of the first keyword only
NameConditions_first_only(keywords) ==
   IF keywords = <<>> THEN <<>>
   ELSE <<RegexCond(BuildPattern(Head(keywords)))>>

RECURSIVE NameConditions(_)
NameConditions(keywords) ==
   IF keywords = <<>> THEN <<>>
   ELSE <<RegexCond(BuildPattern(Head(keywords)))>> \o NameConditions(Tail(keywords))

\* CategoryConditions adding no condition
CategoryConditions_dropped(category_filter) == <<>>

\* STEP 2: the category condition
CategoryConditions(category_filter) ==
   IF Truthy(category_filter) THEN <<CategoryCond(Get(category_filter))>> ELSE <<>>

\* STEP 3: the price condition
PriceConditions(min_price, max_price) ==
   IF ~IsNone(min_price) \/ ~IsNone(max_price)
   THEN <<ExprCond((IF ~IsNone(min_price) THEN <<Gte(Get(min_price))>> ELSE <<>>)
                   \o (IF ~IsNone(max_price) THEN <<Lte(Get(max_price))>> ELSE <<>>))>>
   ELSE <<>>

\* the filter that search_products_by_text hands to the store
and_conditions(query, category_filter, min_price, max_price) ==
   LET keywords == Tokenize(query)
   IN  (IF keywords # <<>> THEN NameConditions(essential_keywords(keywords)) ELSE <<>>)
       \o CategoryConditions(category_filter)
       \o PriceConditions(min_price, max_price)

Returned(products, store_reads) ==
   [raised |-> FALSE, products |-> products, store_reads |-> store_reads]

Raised(store_reads) ==
   [raised |-> TRUE, products |-> <<>>, store_reads |-> store_reads]

search_products_by_text(docs, query, max_results, category_filter, min_price, max_price) ==
   LET keywords == Tokenize(query)
       conditions == and_conditions(query, category_filter, min_price, max_price)
   IN  IF keywords = <<>> /\ ~Truthy(category_filter) THEN Returned(<<>>, 0)
       ELSE IF conditions = <<>> THEN Returned(<<>>, 0)
       ELSE IF QueryFails(conditions, docs) THEN Raised(1)
       ELSE Returned(Find(conditions, docs, max_results), 1)

(***************************************************************************)
(* Range search: search_products_by_price_range                            *)
(***************************************************************************)
\* range_conditions with $gt in place of $gte
range_conditions_exclusive(category, min_price, max_price) ==
   <<CategoryCond(Lower(category)),
     ExprCond(<<Gte(min_price + 1), Lte(max_price)>>)>>

range_conditions(category, min_price, max_price) ==
   <<CategoryCond(Lower(category)),
     ExprCond(<<Gte(min_price), Lte(max_price)>>)>>

\* every store error is caught and answered with the empty list
search_products_by_price_range(docs, category, min_price, max_price, max_results) ==
   LET conditions == range_conditions(category, min_price, max_price)
   IN  IF QueryFails(conditions, docs) THEN Returned(<<>>, 1)
       ELSE Returned(Find(conditions, docs, max_results), 1)

(***************************************************************************)
(* HTTP operations of text_search_api.py                                   *)
(***************************************************************************)
\* pydantic model SearchRequest: the declared fields, defaults for missing
\* ones; a field the model does not declare is dropped from the payload
SearchRequest(payload) ==
   [query |-> payload.query,
    max_results |-> IF IsNone(payload.max_results) THEN 10 ELSE Get(payload.max_results),
    min_price |-> payload.min_price,
    max_price |-> payload.max_price]

\* the base64 text of the image downloaded from url
Base64Of(url) == <<"base64", url>>

\* the images of s whose position is not in failed, in order
RECURSIVE KeptFrom(_, _, _)
KeptFrom(s, failed, i) ==
   IF i > Len(s) THEN <<>>
   ELSE (IF i \in failed THEN <<>> ELSE <<Base64Of(s[i])>>) \o KeptFrom(s, failed, i + 1)

\* download_all_images_parallel: the downloads at the positions in failed
\* yield None, and the None values are filtered out of the returned list
download_all_images_parallel(image_urls, failed) == KeptFrom(image_urls, failed, 1)

\* product_image_mapping: one entry per product that has image URLs
RECURSIVE ImageMapping(_, _)
ImageMapping(products, start_index) ==
   IF products = <<>> THEN <<>>
   ELSE LET product == Head(products)
        IN  IF product.image_urls # <<>>
            THEN <<[product_name |-> product.name,
                    price |-> product.price,
                    product_url |-> product.url,
                    start_index |-> start_index,
                    image_count |-> Len(product.image_urls)]>>
                 \o ImageMapping(Tail(products), start_index + Len(product.image_urls))
            ELSE ImageMapping(Tail(products), start_index)

\* the images of one mapping entry: for i in range(start, end) if i < len(base64_images)
ProductImages(info, base64_images) ==
   LET last == IF info.start_index + info.image_count < Len(base64_images)
               THEN info.start_index + info.image_count
               ELSE Len(base64_images)
   IN  SubSeq(base64_images, info.start_index + 1, last)

RECURSIVE ImageResults(_, _)
ImageResults(mapping, base64_images) ==
   IF mapping = <<>> THEN <<>>
   ELSE LET info == Head(mapping)
            product_images == ProductImages(info, base64_images)
        IN  (IF product_images # <<>>
             THEN <<[product_name |-> info.product_name,
                     price |-> info.price,
                     product_url |-> info.product_url,
                     images_base64 |-> product_images,
                     total_images |-> Len(product_images)]>>
             ELSE <<>>)
            \o ImageResults(Tail(mapping), base64_images)

RECURSIVE ImageUrlsOf(_)
ImageUrlsOf(products) ==
   IF products = <<>> THEN <<>>
   ELSE Head(products).image_urls \o ImageUrlsOf(Tail(products))

HttpResponse(code, status, products, store_reads) ==
   [status_code |-> code, status |-> status, products |-> products,
    store_reads |-> store_reads]

\* the response of /search/images-list for what the search found
ImagesListResponse(found, failed) ==
   IF found.raised
   THEN HttpResponse(500, "error", <<>>, found.store_reads)
   ELSE IF found.products = <<>>
   THEN HttpResponse(200, "no_match", <<>>, found.store_reads)
   ELSE HttpResponse(200, "success",
                     ImageResults(ImageMapping(found.products, 0),
                                  download_all_images_parallel(ImageUrlsOf(found.products),
                                                               failed)),
                     found.store_reads)

\* the handler on the parsed request; the category is always passed as None
SearchImages(docs, request, failed) ==
   IF request.query = <<>> \/ Len(Strip(request.query)) < 2
   THEN HttpResponse(400, "error", <<>>, 0)
   ELSE ImagesListResponse(
           search_products_by_text(docs, request.query, request.max_results,
                                   None, request.min_price, request.max_price),
           failed)

\* POST /search/images-list
search_and_get_images(docs, payload, failed) ==
   SearchImages(docs, SearchRequest(payload), failed)

RECURSIVE RangeResults(_)
RangeResults(products) ==
   IF products = <<>> THEN <<>>
   ELSE <<[product_name |-> Head(products).name,
           price |-> Head(products).price,
           product_url |-> Head(products).url,
           images |-> Head(products).image_urls,
           image_count |-> Len(Head(products).image_urls)]>>
        \o RangeResults(Tail(products))

\* POST /search/range
search_products_in_range(docs, request) ==
   LET found == search_products_by_price_range(docs, request.category, request.min_price,
                                               request.max_price, request.max_results)
   IN  IF request.category = <<>> \/ Len(Strip(request.category)) < 2
       THEN HttpResponse(400, "error", <<>>, 0)
       ELSE IF request.min_price < 0 \/ request.max_price < 0
       THEN HttpResponse(400, "error", <<>>, 0)
       ELSE IF request.min_price > request.max_price
       THEN HttpResponse(400, "error", <<>>, 0)
       ELSE IF found.products = <<>>
       THEN HttpResponse(404, "no_match", <<>>, found.store_reads)
       ELSE HttpResponse(200, "success", RangeResults(found.products), found.store_reads)

(***************************************************************************)
(* Data of the model                                                       *)
(***************************************************************************)
mens_watch == <<"m","e","n","s","_","w","a","t","c","h">>

womens_sunglasses == <<"w","o","m","e","n","s","_","s","u","n","g","l","a","s","s","e","s">>

Mens_Watch == <<"M","e","n","s","_","W","a","t","c","h">>

watches_category == <<"w","a","t","c","h","e","s">>

q_rolex == <<"r","o","l","e","x">>

q_rolex_watch == <<"r","o","l","e","x"," ","w","a","t","c","h">>

q_watch == <<"w","a","t","c","h">>

q_watches == <<"w","a","t","c","h","e","s">>

q_fossil == <<"f","o","s","s","i","l">>

q_rolex_fossil == <<"r","o","l","e","x"," ","f","o","s","s","i","l">>

q_generic_only == <<"w","a","t","c","h"," ","w","a","t","c","h","e","s">>

q_empty == <<>>

q_a_watch == <<"a"," ","w","a","t","c","h">>

q_Rolex_padded == <<" ","R","o","l","e","x"," "," ","W","a","t","c","h"," ">>

q_classic_rolex == <<"c","l","a","s","s","i","c"," ","r","o","l","e","x">>

n_classic_watch == <<"C","l","a","s","s","i","c"," ","W","a","t","c","h">>

n_rolex_sub == <<"R","o","l","e","_","x"," ","S","u","b">>

n_rolex_shades == <<"R","o","l","e","_","x"," ","S","h","a","d","e","s">>

n_fossil_gen == <<"F","o","s","s","i","_","l"," ","G","e","n">>

n_rolex_fossil == <<"R","o","l","e","_","x"," ","F","o","s","s","i","_","l"," ","D","u","o">>

n_plain_fossil == <<"F","o","s","s","i","l"," ","G","e","n">>

p1000 == <<"1","0","0","0">>

p1500 == <<"1","5","0","0">>

p2000 == <<"2","0","0","0">>

p2500 == <<"2","5","0","0">>

Product(name, category_key, price, url, image_urls) ==
   [name |-> name, category_key |-> category_key, price |-> price,
    url |-> url, image_urls |-> image_urls]

\* the products the sync process can put into the catalog; prices are the
\* digit strings the scrapers store
Products ==
   { Product(n_classic_watch, mens_watch, p1500, "u1", <<"a1">>),
     Product(n_rolex_sub, mens_watch, p2000, "u2", <<"b1", "b2">>),
     Product(n_rolex_shades, womens_sunglasses, p1500, "u3", <<"c1">>),
     Product(n_fossil_gen, mens_watch, p1000, "u4", <<>>),
     Product(n_rolex_fossil, mens_watch, p2500, "u5", <<"e1">>) }

MaxCatalog == 3

Queries ==
   { q_rolex, q_rolex_watch, q_watch, q_watches, q_fossil, q_rolex_fossil,
     q_generic_only, q_empty, q_a_watch, q_Rolex_padded, q_classic_rolex }

CategoryFilters == { None, Some(mens_watch), Some(womens_sunglasses) }

MinPrices == { None, Some(1500) }

MaxPrices == { None, Some(2000) }

MaxResults == { 1, 10 }

RangeCategories == { mens_watch, Mens_Watch, watches_category }

RangePrices == { 1000, 1500, 2000 }

RangeMaxResults == { 1, 20 }

\* inputs of normalize_brand_name, in the order of the definitions:
\* "rolex", " Rolex ", "hilfiger", "om", "taxi", "watch", "titan", "", "maps"
BrandInputs ==
   { q_rolex, <<" ","R","o","l","e","x"," ">>, <<"h","i","l","f","i","g","e","r">>,
     <<"o","m">>, <<"t","a","x","i">>, q_watch, <<"T","i","t","a","n">>, <<>>,
     <<"m","a","p","s">> }

Phones == { "p1" }

(***************************************************************************)
(* Chat path of main.py: send_product_images_v2                            *)
(***************************************************************************)
\* the payload posted to /search/images-list
search_payload(keyword, min_price, max_price, category_key) ==
   [query |-> keyword, max_results |-> Some(50),
    category_filter |-> IF Truthy(category_key) THEN category_key ELSE None,
    min_price |-> min_price, max_price |-> max_price]

Min(a, b) == IF a < b THEN a ELSE b

\* Python slice s[start:end] for 0 <= start
Slice(s, start, end) == SubSeq(s, start + 1, Min(end, Len(s)))

RECURSIVE DeliveredFrom(_, _, _)
DeliveredFrom(products_to_send, accepted, i) ==
   IF i > Len(products_to_send) THEN <<>>
   ELSE (IF products_to_send[i].images_base64 # <<>> /\ i \in accepted
         THEN <<products_to_send[i].product_url>> ELSE <<>>)
        \o DeliveredFrom(products_to_send, accepted, i + 1)

\* send_single_product over the batch: the product_url of every product whose
\* first image the messaging channel accepted (positions in accepted)
Delivered(products_to_send, accepted) == DeliveredFrom(products_to_send, accepted, 1)

Outcome(success, total_found, success_count, all_products, end_index, delivered, texts) ==
   [success |-> success, total_found |-> total_found, success_count |-> success_count,
    all_products |-> all_products, end_index |-> end_index,
    delivered |-> delivered, texts |-> texts]

Failure == Outcome(FALSE, 0, 0, <<>>, 0, <<>>, <<>>)

\* the text messages of one batch: the intro, and the completion message
\* when something was delivered
BatchTexts(success_count, end_index, total_found) ==
   <<"intro">> \o (IF success_count > 0
                   THEN IF end_index < total_found
                        THEN <<"more_available">> ELSE <<"completion">>
                   ELSE <<>>)

BatchOutcome(all_products, end_index, delivered) ==
   Outcome(TRUE, Len(all_products), Len(delivered), all_products, end_index, delivered,
           BatchTexts(Len(delivered), end_index, Len(all_products)))

\* the batch [start_index, end_index) of the found products is sent
SendBatch(all_products, start_index, end_index, accepted) ==
   BatchOutcome(all_products, end_index,
                Delivered(Slice(all_products, start_index, end_index), accepted))

\* what send_product_images_v2 does with the response of the search service
HandleSearchResponse(response, start_index, batch_size, accepted) ==
   IF response.status_code # 200 THEN Failure
   ELSE IF response.status # "success" \/ response.products = <<>> THEN Failure
   ELSE SendBatch(response.products, start_index,
                  Min(start_index + batch_size, Len(response.products)), accepted)

\* send_product_images_v2 up to its writes to product_cache; api_up says
\* whether the search service answered, failed which downloads failed,
\* accepted which sends the messaging channel accepted
send_product_images_v2(docs, keyword, start_index, batch_size, min_price, max_price, category_key, api_up, failed, accepted) ==
   IF keyword = <<>> \/ Len(Strip(keyword)) < 2 THEN Failure
   ELSE IF ~api_up THEN Failure
   ELSE HandleSearchResponse(
           search_and_get_images(
              docs, search_payload(keyword, min_price, max_price, category_key), failed),
           start_index, batch_size, accepted)

\* orchestrator.cache_product_data(phone_number, all_products)
cache_product_data(cache, phone_number, all_products) ==
   [cache EXCEPT ![phone_number] =
       Some([products |-> all_products,
             sent_count |-> IF IsNone(cache[phone_number]) THEN 0
                            ELSE Get(cache[phone_number]).sent_count])]

\* product_cache.update_one({'phone_number': ...}, {'$set': {'sent_count': ...}})
update_sent_count(cache, phone_number, sent_count) ==
   IF IsNone(cache[phone_number]) THEN cache
   ELSE [cache EXCEPT ![phone_number] =
            Some([Get(cache[phone_number]) EXCEPT !.sent_count = sent_count])]

(***************************************************************************)
(* State and operations                                                    *)
(***************************************************************************)
VARIABLES
   catalog,        \* the products collection, in insertion order
   op,             \* "idle", or the operation whose response is being returned
   args,           \* its arguments
   result,         \* what it returns
   product_cache,  \* the product_cache collection of the chat bot, by phone
   search_contexts, \* orchestrator.search_contexts: the pagination session by phone
   handlers,       \* the webhook requests being handled concurrently
   session_origin, \* history: by phone, the search that created its session
   context_log,    \* history: the update_search_context calls, oldest first
   delivery_log,   \* history: by phone, the products its session delivered
   user_states     \* orchestrator.user_states: the question asked, by phone

vars == <<catalog, op, args, result, product_cache, search_contexts, handlers, session_origin, context_log, delivery_log, user_states>>

session_vars == <<search_contexts, handlers, session_origin, context_log, delivery_log, user_states>>

\* a Python dict is a function from its keys; {} is the function with no key
EmptyDict == [key \in {} |-> None]

\* dict.get(key, default)
DictGet(dict, key, default) == IF key \in DOMAIN dict THEN dict[key] ELSE default

\* the webhook requests the server may be handling at one time
Handlers == { "h1", "h2" }

IdleHandler == [pc |-> "idle"]

\* no session has been saved and no webhook request is being handled
NoSessions ==
   /\ search_contexts = EmptyDict
   /\ handlers = [h \in Handlers |-> IdleHandler]
   /\ session_origin = EmptyDict
   /\ context_log = <<>>
   /\ delivery_log = EmptyDict
   /\ user_states = EmptyDict

NoArgs == [none |-> TRUE]

Init ==
   /\ catalog = <<>>
   /\ op = "idle"
   /\ args = NoArgs
   /\ result = NoArgs
   /\ product_cache = [phone \in Phones |-> None]
   /\ NoSessions

InCatalog(product) == \E i \in 1..Len(catalog) : catalog[i].url = product.url

\* sync_database: a newly scraped product is inserted
AddProduct(product) ==
   /\ op = "idle"
   /\ Len(catalog) < MaxCatalog
   /\ ~InCatalog(product)
   /\ catalog' = Append(catalog, product)
   /\ UNCHANGED <<op, args, result>>
   /\ UNCHANGED product_cache
   /\ UNCHANGED session_vars

\* sync_database: a product that left the storefront is deleted
DeleteProduct(i) ==
   /\ op = "idle"
   /\ i \in 1..Len(catalog)
   /\ catalog' = SubSeq(catalog, 1, i - 1) \o SubSeq(catalog, i + 1, Len(catalog))
   /\ UNCHANGED <<op, args, result>>
   /\ UNCHANGED product_cache
   /\ UNCHANGED session_vars

NormalizeBrand(keyword) ==
   /\ op = "idle"
   /\ op' = "normalize_brand_name"
   /\ args' = [keyword |-> keyword]
   /\ result' = [value |-> normalize_brand_name(keyword)]
   /\ UNCHANGED <<catalog, product_cache>>
   /\ UNCHANGED session_vars

SearchByText(query, max_results, category_filter, min_price, max_price) ==
   /\ op = "idle"
   /\ op' = "search_products_by_text"
   /\ args' = [query |-> query, max_results |-> max_results,
               category_filter |-> category_filter,
               min_price |-> min_price, max_price |-> max_price]
   /\ result' = search_products_by_text(catalog, query, max_results, category_filter,
                                        min_price, max_price)
   /\ UNCHANGED <<catalog, product_cache>>
   /\ UNCHANGED session_vars

SearchByPriceRange(category, min_price, max_price, max_results) ==
   /\ op = "idle"
   /\ op' = "search_products_by_price_range"
   /\ args' = [category |-> category, min_price |-> min_price,
               max_price |-> max_price, max_results |-> max_results]
   /\ result' = search_products_by_price_range(catalog, category, min_price, max_price,
                                               max_results)
   /\ UNCHANGED <<catalog, product_cache>>
   /\ UNCHANGED session_vars

PostSearchRange(request) ==
   /\ op = "idle"
   /\ op' = "search_products_in_range"
   /\ args' = request
   /\ result' = search_products_in_range(catalog, request)
   /\ UNCHANGED <<catalog, product_cache>>
   /\ UNCHANGED session_vars

PostSearchImagesList(payload, failed) ==
   /\ op = "idle"
   /\ op' = "search_and_get_images"
   /\ args' = payload
   /\ result' = search_and_get_images(catalog, payload, failed)
   /\ UNCHANGED <<catalog, product_cache>>
   /\ UNCHANGED session_vars

SendProductImages(keyword, phone_number, start_index, batch_size, min_price, max_price, category_key, api_up, failed, accepted) ==
   LET outcome == send_product_images_v2(catalog, keyword, start_index, batch_size,
                                         min_price, max_price, category_key,
                                         api_up, failed, accepted)
   IN  /\ op = "idle"
       /\ op' = "send_product_images_v2"
       /\ args' = [keyword |-> keyword, phone_number |-> phone_number,
                   start_index |-> start_index, batch_size |-> batch_size,
                   min_price |-> min_price, max_price |-> max_price,
                   category_key |-> category_key]
       /\ result' = outcome
       /\ product_cache' =
             IF outcome.success
             THEN update_sent_count(
                     cache_product_data(product_cache, phone_number, outcome.all_products),
                     phone_number, outcome.end_index)
             ELSE product_cache
       /\ UNCHANGED catalog
       /\ UNCHANGED session_vars

\* the response has been delivered to the caller
Return ==
   /\ op # "idle"
   /\ op' = "idle"
   /\ args' = NoArgs
   /\ result' = NoArgs
   /\ UNCHANGED <<catalog, product_cache>>
   /\ UNCHANGED session_vars

RangeRequests ==
   [category : RangeCategories \cup { <<"w">> },
    min_price : RangePrices \cup { -1 },
    max_price : { 1500, 2000 },
    max_results : { 20 }]

Sync ==
   \/ \E product \in Products : AddProduct(product)
   \/ \E i \in 1..MaxCatalog : DeleteProduct(i)

\* the search service: the catalog and the searches of text_search_api.py
Next ==
   \/ Sync
   \/ \E keyword \in BrandInputs : NormalizeBrand(keyword)
   \/ \E query \in Queries, max_results \in MaxResults, category_filter \in CategoryFilters,
         min_price \in MinPrices, max_price \in MaxPrices :
         SearchByText(query, max_results, category_filter, min_price, max_price)
   \/ \E category \in RangeCategories, min_price \in RangePrices,
         max_price \in { 1500, 2000 }, max_results \in RangeMaxResults :
         SearchByPriceRange(category, min_price, max_price, max_results)
   \/ \E request \in RangeRequests : PostSearchRange(request)
   \/ Return

Spec == Init /\ [][Next]_vars

(***************************************************************************)
(* The chat bot of main.py in front of the search service                  *)
(***************************************************************************)
ProductByUrl(url) == CHOOSE product \in Products : product.url = url

\* catalogs the bot is started on, as sequences of product urls
ChatCatalogUrls ==
   { <<>>, <<"u2">>, <<"u2", "u3">>, <<"u3", "u2">>, <<"u4", "u3", "u2">>,
     <<"u2", "u5", "u3">>, <<"u1", "u4">> }

ChatCatalogs ==
   { [i \in 1..Len(urls) |-> ProductByUrl(urls[i])] : urls \in ChatCatalogUrls }

ChatKeywords == { q_rolex, q_fossil, <<"x">> }

ChatCategories == { None, Some(mens_watch) }

StartIndexes == { 0, 1 }

BatchSizes == { 1, 10 }

InitChat ==
   /\ catalog \in ChatCatalogs
   /\ op = "idle"
   /\ args = NoArgs
   /\ result = NoArgs
   /\ product_cache = [phone \in Phones |-> None]
   /\ NoSessions

\* the number of images the search service downloads for a payload
DownloadCount(payload) ==
   LET request == SearchRequest(payload)
   IN  Len(ImageUrlsOf(search_products_by_text(catalog, request.query, request.max_results,
                                               None, request.min_price,
                                               request.max_price).products))

ImagePayload(query, max_results, category_filter, min_price, max_price) ==
   [query |-> query, max_results |-> max_results, category_filter |-> category_filter,
    min_price |-> min_price, max_price |-> max_price]

NextChat ==
   \/ \E keyword \in ChatKeywords, phone_number \in Phones, start_index \in StartIndexes,
         batch_size \in BatchSizes, category_key \in ChatCategories, api_up \in BOOLEAN :
         \E failed \in SUBSET (1..DownloadCount(search_payload(keyword, None, None,
                                                               category_key))) :
            \E accepted \in SUBSET (1..Min(batch_size, Len(catalog))) :
               SendProductImages(keyword, phone_number, start_index, batch_size, None, None,
                                 category_key, api_up, failed, accepted)
   \/ \E query \in { q_rolex, <<"x">> }, max_results \in { None, Some(50) },
         category_filter \in ChatCategories, max_price \in MaxPrices :
         \E failed \in SUBSET (1..DownloadCount(ImagePayload(query, max_results,
                                                             category_filter, None,
                                                             max_price))) :
            PostSearchImagesList(ImagePayload(query, max_results, category_filter, None,
                                              max_price), failed)
   \/ Return

SpecChat == InitChat /\ [][NextChat]_vars

(***************************************************************************)
(* The end-to-end scenario: twelve mens_watch products, three of one brand *)
(***************************************************************************)
ScenarioUrls == <<"w1", "w2", "w3", "w4", "w5", "w6", "w7", "w8", "w9", "w10", "w11", "w12">>

\* the three branded products are at the positions in branded and carry
\* brand_name; other says whether a branded product of another category is
\* in the catalog as well
ScenarioCatalog(branded, brand_name, other) ==
   [i \in 1..Len(ScenarioUrls) |->
      Product(IF i \in branded THEN brand_name ELSE n_classic_watch,
              mens_watch, p1500, ScenarioUrls[i], <<>>)]
   \o (IF other THEN <<Product(brand_name, womens_sunglasses, p1500, "w0", <<>>)>>
       ELSE <<>>)

InitFossil ==
   /\ \E branded \in SUBSET (1..Len(ScenarioUrls)) :
         /\ Cardinality(branded) = 3
         /\ \E brand_name \in { n_fossil_gen, n_plain_fossil }, other \in BOOLEAN :
               catalog = ScenarioCatalog(branded, brand_name, other)
   /\ op = "idle"
   /\ args = NoArgs
   /\ result = NoArgs
   /\ product_cache = [phone \in Phones |-> None]
   /\ NoSessions

NextFossil ==
   \/ \E query \in { q_fossil, q_watch }, category_filter \in { None, Some(mens_watch) } :
         SearchByText(query, 10, category_filter, None, None)
   \/ Return

SpecFossil == InitFossil /\ [][NextFossil]_vars

(***************************************************************************)
(* Properties of the search service                                        *)
(***************************************************************************)
InSeq(x, seq) == \E i \in 1..Len(seq) : seq[i] = x

\* the name contains the text, ignoring case
NameContains(name, text) == IsSubstring(Lower(text), Lower(name))

\* C1: a keyword search with a non-empty category_filter c returns only
\* products whose category_key is exactly c, whatever the keywords and the
\* price bounds are
C1_CategoryScoping ==
   (op = "search_products_by_text" /\ Truthy(args.category_filter))
   => \A i \in 1..Len(result.products) :
         result.products[i].category_key = Get(args.category_filter)

\* a search for rolex scoped to mens_watch, with a price bound, returns a
\* product while a rolex product of another category is in the catalog
C1_Witness ==
   /\ op = "search_products_by_text"
   /\ args.query = q_rolex
   /\ args.category_filter = Some(mens_watch)
   /\ ~IsNone(args.min_price)
   /\ result.products # <<>>
   /\ \E i \in 1..Len(catalog) :
         /\ catalog[i].category_key = womens_sunglasses
         /\ NameContains(catalog[i].name, <<"r","o","l","e","_","x">>)
         /\ Get(ToDouble(catalog[i].price)) >= Get(args.min_price)

\* the keyword tokens of a query: its whitespace-separated words of more than
\* one character, lower-cased
KeywordTokens(query) ==
   LET words == SelectSeq(Split(query), LAMBDA w : Len(w) > 1)
   IN  [i \in 1..Len(words) |-> Lower(words[i])]

\* the pattern of a token matches the name
TokenMatches(token, name) == RegexSearch(BuildPattern(normalize_brand_name(token)), name)

\* C3: for a query with two non-generic keyword tokens a product is returned
\* only if its name matches the pattern of both tokens
C3_Conjunctive ==
   op = "search_products_by_text"
   => LET tokens == KeywordTokens(args.query)
      IN  (/\ Len(tokens) = 2
           /\ \A k \in 1..2 : ~is_generic_type(normalize_brand_name(tokens[k])))
          => \A i \in 1..Len(result.products) :
                \A k \in 1..2 : TokenMatches(tokens[k], result.products[i].name)

\* "rolex fossil" returns the product named with both brands and leaves out a
\* catalog product named with only one of them
C3_Witness ==
   /\ op = "search_products_by_text"
   /\ args.query = q_rolex_fossil
   /\ \E i \in 1..Len(result.products) : result.products[i].name = n_rolex_fossil
   /\ \E i \in 1..Len(catalog) :
         /\ catalog[i].name = n_rolex_sub
         /\ ~InSeq(catalog[i], result.products)
         /\ IsNone(args.category_filter) /\ IsNone(args.min_price) /\ IsNone(args.max_price)

\* C4: with "Classic Watch" in the catalog, the searches "watch" and
\* "watches" (no category, no price bounds, max_results not below the size
\* of the catalog) both return that product
C4_Pluralization ==
   (/\ op = "search_products_by_text"
    /\ args.query \in { q_watch, q_watches }
    /\ IsNone(args.category_filter) /\ IsNone(args.min_price) /\ IsNone(args.max_price)
    /\ args.max_results >= Len(catalog) /\ args.max_results >= 1
    /\ \E i \in 1..Len(catalog) : catalog[i].name = n_classic_watch)
   => \E i \in 1..Len(result.products) : result.products[i].name = n_classic_watch

\* C6: when the effective keyword list is empty and no category_filter is
\* given, the keyword search returns the empty list, for every choice of
\* min_price and max_price
C6_EmptyUnscoped ==
   (/\ op = "search_products_by_text"
    /\ essential_keywords(Tokenize(args.query)) = <<>>
    /\ ~Truthy(args.category_filter))
   => (~result.raised /\ result.products = <<>>)

\* the effective keyword list as the claim describes it
ClaimedKeywords(query) ==
   LET tokens == KeywordTokens(query)
       kept == IF Len(tokens) > 1
               THEN SelectSeq(tokens, LAMBDA t : ~is_generic_type(normalize_brand_name(t)))
               ELSE tokens
   IN  [i \in 1..Len(kept) |-> normalize_brand_name(kept[i])]

Qualifying(k) ==
   { i \in 1..Len(BRAND_MAPPING) : IsSubstring(BrandKey(i), k) \/ IsSubstring(k, BrandKey(i)) }

\* normalize_brand_name as the claim describes it
ClaimedBrand(t) ==
   LET k == Strip(Lower(t))
       exact == { i \in 1..Len(BRAND_MAPPING) : BrandKey(i) = k }
   IN  IF exact # {} THEN BrandValue(CHOOSE i \in exact : TRUE)
       ELSE IF Qualifying(k) # {}
            THEN BrandValue(CHOOSE i \in Qualifying(k) : \A j \in Qualifying(k) : i <= j)
            ELSE t

\* C8: normalize_brand_name(t) is the table value of the lower-cased, stripped
\* t when that is a key; otherwise the value of the first key in table order
\* that contains it or is contained in it; otherwise t unchanged
C8_NormalizeBrand ==
   op = "normalize_brand_name" => result.value = ClaimedBrand(args.keyword)

\* "om" is no key, is contained in the keys tommy and omega, and is mapped to
\* the value of tommy, the first of them in table order
C8_Witness ==
   /\ op = "normalize_brand_name"
   /\ args.keyword = <<"o","m">>
   /\ result.value = <<"t","o","m","m","_","y">>

\* the number a price text stands for
PriceOf(product) == Get(ToDouble(product.price))

\* the catalog products of category cat priced within [lo, hi], in store order
InRange(cat, lo, hi) ==
   SelectSeq(catalog, LAMBDA product : /\ product.category_key = cat
                                       /\ lo <= PriceOf(product)
                                       /\ PriceOf(product) <= hi)

C10_RangeRejected ==
   /\ (op = "search_products_by_price_range" /\ args.min_price > args.max_price)
      => (result.raised /\ result.store_reads = 0)
   /\ (op = "search_products_in_range" /\ args.min_price > args.max_price)
      => (result.status_code = 400 /\ result.store_reads = 0)

(***************************************************************************)
(* Properties of the scenario and of the chat path                         *)
(***************************************************************************)
\* the catalog products of category mens_watch, and those among them whose
\* name contains the text
MensWatches == SelectSeq(catalog, LAMBDA product : product.category_key = mens_watch)

MensWatchesNamed(text) ==
   SelectSeq(MensWatches, LAMBDA product : NameContains(product.name, text))

FossilCall ==
   /\ op = "search_products_by_text"
   /\ args = [query |-> q_fossil, max_results |-> 10, category_filter |-> Some(mens_watch),
              min_price |-> None, max_price |-> None]
   /\ Len(MensWatches) = 12

\* C5 as stated: with 12 mens_watch products, exactly 3 of them named with
\* "Fossil", the search ("fossil", 10, mens_watch) returns exactly those 3
C5_FossilAsStated ==
   (FossilCall /\ Len(MensWatchesNamed(<<"F","o","s","s","i","l">>)) = 3)
   => result.products = MensWatchesNamed(<<"F","o","s","s","i","l">>)

\* C5 amended: with 12 mens_watch products, exactly 3 of them named with the
\* stored spelling "Fossi_l" of the brand, the search ("fossil", 10,
\* mens_watch) returns exactly those 3, so total_found is 3
C5_FossilStoredSpelling ==
   (FossilCall /\ Len(MensWatchesNamed(<<"F","o","s","s","i","_","l">>)) = 3)
   => /\ ~result.raised
      /\ result.products = MensWatchesNamed(<<"F","o","s","s","i","_","l">>)
      /\ Len(result.products) = 3

\* the scenario call returned three products while a product of the same
\* brand in another category is in the catalog
C5_Witness ==
   /\ FossilCall
   /\ Len(MensWatchesNamed(<<"F","o","s","s","i","_","l">>)) = 3
   /\ Len(catalog) = 13
   /\ Len(result.products) = 3

\* C2: a keyword search started from the chat path with a category_key
\* delivers only products whose category_key is that category
C2_ChatCategoryScoping ==
   (op = "send_product_images_v2" /\ Truthy(args.category_key))
   => \A i \in 1..Len(result.delivered) :
         ProductByUrl(result.delivered[i]).category_key = Get(args.category_key)

(***************************************************************************)
(* Pagination session: the search context of a conversation                *)
(***************************************************************************)
\* AgentOrchestrator.get_search_context
get_search_context(contexts, phone_number) == DictGet(contexts, phone_number, EmptyDict)

\* dict[key] = value
DictSet(dict, key, value) ==
   [k \in DOMAIN dict \cup { key } |-> IF k = key THEN value ELSE dict[k]]

\* dict.update: the keys of the stored context that the new one lacks are kept
update_search_context_merge(contexts, phone_number, context) ==
   DictSet(contexts, phone_number,
           [k \in DOMAIN DictGet(contexts, phone_number, EmptyDict) \cup DOMAIN context |->
               IF k \in DOMAIN context THEN context[k]
               ELSE DictGet(contexts, phone_number, EmptyDict)[k]])

\* AgentOrchestrator.update_search_context
update_search_context(contexts, phone_number, context) ==
   DictSet(contexts, phone_number, context)

\* the context that save_search_context stores
SearchContext(keyword, total_found, sent_count, min_price, max_price, category_key) ==
   [keyword |-> keyword, total_found |-> total_found, sent_count |-> sent_count,
    min_price |-> min_price, max_price |-> max_price, category_key |-> category_key]

\* orchestrator.save_search_context(phone_number, keyword, total_found,
\* sent_count, min_price=None, max_price=None, category_key=None): the
\* session of the phone is overwritten
save_search_context(contexts, phone_number, keyword, total_found, sent_count, min_price, max_price, category_key) ==
   update_search_context(contexts, phone_number,
                         SearchContext(keyword, total_found, sent_count,
                                       min_price, max_price, category_key))

(***************************************************************************)
(* webhook of main.py: a text message of a conversation that is in no      *)
(* question flow (orchestrator.user_states has no entry for the phone)     *)
(***************************************************************************)
\* the batch size of every search of the webhook
WebhookBatchSize == 10

\* the search context says that products are pending
Pending(search_ctx) ==
   /\ search_ctx # EmptyDict
   /\ DictGet(search_ctx, "sent_count", 0) < DictGet(search_ctx, "total_found", 0)

\* what orchestrator.analyze_message answers: the action and its metadata;
\* category and product_name are the metadata of a range search
Analysis(action, keyword, category_key, min_price, max_price) ==
   [action |-> action, keyword |-> keyword, category_key |-> category_key,
    min_price |-> min_price, max_price |-> max_price,
    category |-> <<>>, product_name |-> <<>>]

RangeAnalysis(category, min_price, max_price, product_name) ==
   [action |-> "find_product_by_range", keyword |-> <<>>, category_key |-> None,
    min_price |-> Some(min_price), max_price |-> Some(max_price),
    category |-> category, product_name |-> product_name]

\* the outside world during one turn: whether the search service answers,
\* which image downloads fail, which sends the messaging channel accepts
Env(api_up, failed, accepted) == [api_up |-> api_up, failed |-> failed, accepted |-> accepted]

\* a keyword search posted to /search/images-list by send_product_images_v2
KeywordSearch(keyword, start_index, min_price, max_price, category_key) ==
   [kind |-> "keyword", keyword |-> keyword, start_index |-> start_index,
    min_price |-> min_price, max_price |-> max_price, category_key |-> category_key]

\* a range search posted to /search/range
RangeSearch(category, min_price, max_price) ==
   [kind |-> "range", keyword |-> category, start_index |-> 0,
    min_price |-> min_price, max_price |-> max_price, category_key |-> None]

\* the searches send_product_images_v2 posts: none for a keyword it refuses
SearchesOfSend(keyword, start_index, min_price, max_price, category_key) ==
   IF keyword = <<>> \/ Len(Strip(keyword)) < 2 THEN <<>>
   ELSE <<KeywordSearch(keyword, start_index, min_price, max_price, category_key)>>

\* what a turn did: the branch taken, the searches posted, whether a session
\* was saved, the products delivered and the text messages sent
Turn(kind, searches, saved, delivered, texts) ==
   [kind |-> kind, searches |-> searches, saved |-> saved, delivered |-> delivered,
    texts |-> texts]

\* send_product_images_v2 as the webhook calls it
SendOf(docs, keyword, start_index, min_price, max_price, category_key, env) ==
   send_product_images_v2(docs, keyword, start_index, WebhookBatchSize, min_price,
                          max_price, category_key, env.api_up, env.failed, env.accepted)

\* the writes of send_product_images_v2 to product_cache
CacheAfterSend(cache, phone_number, outcome) ==
   IF outcome.success
   THEN update_sent_count(cache_product_data(cache, phone_number, outcome.all_products),
                          phone_number, outcome.end_index)
   ELSE cache

\* the show-more branch: the next batch of the pending session
ShowMoreSend(docs, search_ctx, env) ==
   SendOf(docs, DictGet(search_ctx, "keyword", <<>>), DictGet(search_ctx, "sent_count", 0),
          DictGet(search_ctx, "min_price", None), DictGet(search_ctx, "max_price", None),
          DictGet(search_ctx, "category_key", None), env)

ShowMoreSearches(search_ctx) ==
   SearchesOfSend(DictGet(search_ctx, "keyword", <<>>), DictGet(search_ctx, "sent_count", 0),
                  DictGet(search_ctx, "min_price", None),
                  DictGet(search_ctx, "max_price", None),
                  DictGet(search_ctx, "category_key", None))

\* the session after the show-more branch
ShowMoreContexts(contexts, phone_number, search_ctx, outcome) ==
   IF outcome.success
   THEN save_search_context(contexts, phone_number, DictGet(search_ctx, "keyword", <<>>),
                            outcome.total_found,
                            DictGet(search_ctx, "sent_count", 0) + outcome.success_count,
                            DictGet(search_ctx, "min_price", None),
                            DictGet(search_ctx, "max_price", None),
                            DictGet(search_ctx, "category_key", None))
   ELSE contexts

\* the check inside the show-more branch: nothing is left to show
SeenAll(search_ctx) ==
   DictGet(search_ctx, "sent_count", 0) >= DictGet(search_ctx, "total_found", 0)

ShowMoreTurn(search_ctx, outcome) ==
   IF SeenAll(search_ctx) THEN Turn("show_more", <<>>, FALSE, <<>>, <<"seen_all">>)
   ELSE Turn("show_more", ShowMoreSearches(search_ctx), outcome.success,
             outcome.delivered, outcome.texts)

\* the find_product branch with a keyword: a new search from offset 0
FindProductSend(docs, analysis, env) ==
   SendOf(docs, analysis.keyword, 0, analysis.min_price, analysis.max_price,
          analysis.category_key, env)

\* the session after the find_product branch: saved without the filters
FindProductContexts(contexts, phone_number, analysis, outcome) ==
   IF outcome.success
   THEN save_search_context(contexts, phone_number, analysis.keyword, outcome.total_found,
                            outcome.success_count, None, None, None)
   ELSE contexts

FindProductTurn(analysis, outcome) ==
   Turn("find_product",
        SearchesOfSend(analysis.keyword, 0, analysis.min_price, analysis.max_price,
                       analysis.category_key),
        outcome.success, outcome.delivered,
        IF outcome.success THEN outcome.texts ELSE <<"no_products_found">>)

\* the request of the find_product_by_range branch
RangeRequestOf(analysis) ==
   [category |-> analysis.category, min_price |-> Get(analysis.min_price),
    max_price |-> Get(analysis.max_price), max_results |-> 50]

\* send_single_product of the range branch calls whatsapp.forward_media,
\* which WhatsAppHandler does not define: the AttributeError is caught and
\* the send counts as failed, whatever the channel would have accepted
RangeDelivered(products_to_send, accepted) == <<>>

\* the answer of /search/range, if the search service answers
RangeResponse(docs, analysis, env) ==
   IF env.api_up THEN search_products_in_range(docs, RangeRequestOf(analysis))
   ELSE HttpResponse(0, "unreachable", <<>>, 0)

\* the products of the answer as the range branch reads it
RangeFound(response) ==
   IF response.status_code = 200 /\ response.status = "success" THEN response.products
   ELSE <<>>

\* the text messages of the range branch
RangeTexts(api_up, response, success_count, sent_count) ==
   IF ~api_up THEN <<"technical_error">>
   ELSE IF response.status_code # 200 THEN <<"could_not_search">>
   ELSE IF response.status # "success" THEN <<"search_failed">>
   ELSE IF response.products = <<>> THEN <<"no_products_in_range">>
   ELSE <<"intro">> \o (IF success_count = 0 THEN <<>>
                        ELSE IF sent_count < Len(response.products)
                        THEN <<"more_available">> ELSE <<"completion">>)

RangeBatch(all_products) == Slice(all_products, 0, WebhookBatchSize)

\* the session after the range branch: sent_count is the size of the batch
RangeContexts(contexts, phone_number, analysis, all_products, success_count) ==
   IF success_count > 0
   THEN save_search_context(contexts, phone_number, analysis.product_name,
                            Len(all_products), Len(RangeBatch(all_products)),
                            None, None, None)
   ELSE contexts

RangeCache(cache, phone_number, all_products) ==
   IF all_products # <<>> THEN cache_product_data(cache, phone_number, all_products)
   ELSE cache

RangeTurn(analysis, env, response, delivered) ==
   Turn("find_product_by_range",
        <<RangeSearch(analysis.category, analysis.min_price, analysis.max_price)>>,
        Len(delivered) > 0, delivered,
        RangeTexts(env.api_up, response, Len(delivered),
                   Len(RangeBatch(RangeFound(response)))))

\* the history of the session: the search that created it
OriginAfter(origin, phone_number, turn) ==
   IF turn.saved THEN DictSet(origin, phone_number, turn.searches[1]) ELSE origin

\* lines 845-873: the conversation has pending products and the classifier
\* says that the user wants more of them
ShowMoreBranch(phone_number, search_ctx, env) ==
   /\ result' = ShowMoreTurn(search_ctx, ShowMoreSend(catalog, search_ctx, env))
   /\ search_contexts' =
         IF SeenAll(search_ctx) THEN search_contexts
         ELSE ShowMoreContexts(search_contexts, phone_number, search_ctx,
                               ShowMoreSend(catalog, search_ctx, env))
   /\ product_cache' =
         IF SeenAll(search_ctx) THEN product_cache
         ELSE CacheAfterSend(product_cache, phone_number,
                             ShowMoreSend(catalog, search_ctx, env))
   /\ UNCHANGED session_origin

\* lines 1076-1175 with a keyword: a new keyword search
FindProductBranch(phone_number, analysis, env) ==
   /\ result' = FindProductTurn(analysis, FindProductSend(catalog, analysis, env))
   /\ search_contexts' = FindProductContexts(search_contexts, phone_number, analysis,
                                             FindProductSend(catalog, analysis, env))
   /\ product_cache' = CacheAfterSend(product_cache, phone_number,
                                      FindProductSend(catalog, analysis, env))
   /\ session_origin' =
         OriginAfter(session_origin, phone_number,
                     FindProductTurn(analysis, FindProductSend(catalog, analysis, env)))

RangeDeliveredOf(analysis, env) ==
   RangeDelivered(RangeBatch(RangeFound(RangeResponse(catalog, analysis, env))),
                  env.accepted)

\* lines 1216-1320: a new range search
RangeBranch(phone_number, analysis, env) ==
   /\ result' = RangeTurn(analysis, env, RangeResponse(catalog, analysis, env),
                          RangeDeliveredOf(analysis, env))
   /\ search_contexts' =
         RangeContexts(search_contexts, phone_number, analysis,
                       RangeFound(RangeResponse(catalog, analysis, env)),
                       Len(RangeDeliveredOf(analysis, env)))
   /\ product_cache' = RangeCache(product_cache, phone_number,
                                  RangeFound(RangeResponse(catalog, analysis, env)))
   /\ session_origin' =
         OriginAfter(session_origin, phone_number,
                     RangeTurn(analysis, env, RangeResponse(catalog, analysis, env),
                               RangeDeliveredOf(analysis, env)))

\* the other actions: an AI chat answer; show_more without pending products
\* has no branch and sends nothing
OtherBranch(analysis) ==
   /\ result' = Turn(analysis.action, <<>>, FALSE, <<>>,
                     IF analysis.action = "ai_chat" THEN <<"ai_response">> ELSE <<>>)
   /\ UNCHANGED <<search_contexts, product_cache, session_origin>>

\* the product urls of the batch [start_index, end_index) of a send
WindowOf(outcome, start_index) ==
   LET products_to_send == Slice(outcome.all_products, start_index, outcome.end_index)
   IN  { products_to_send[i].product_url : i \in 1..Len(products_to_send) }

UrlsOf(delivered) == { delivered[i] : i \in 1..Len(delivered) }

NoDeliveries == [earlier |-> {}, window |-> {}, delivered |-> {}]

\* the history of a session after a send that succeeded: the products
\* delivered in its earlier turns, and the window and the deliveries of this one
DeliveriesAfter(before, outcome, start_index) ==
   [earlier |-> before.earlier \cup before.delivered,
    window |-> WindowOf(outcome, start_index),
    delivered |-> UrlsOf(outcome.delivered)]

\* the history of the sessions after the message: a new search that
\* succeeded starts the history of its session, a show-more turn extends it
DeliveryLogAfter(log, phone_number, search_ctx, analysis, env) ==
   IF Pending(search_ctx) /\ analysis.action = "show_more"
   THEN IF ShowMoreSend(catalog, search_ctx, env).success
        THEN DictSet(log, phone_number,
                     DeliveriesAfter(DictGet(log, phone_number, NoDeliveries),
                                     ShowMoreSend(catalog, search_ctx, env),
                                     DictGet(search_ctx, "sent_count", 0)))
        ELSE log
   ELSE IF analysis.action = "find_product"
             /\ FindProductSend(catalog, analysis, env).success
   THEN DictSet(log, phone_number,
                DeliveriesAfter(NoDeliveries, FindProductSend(catalog, analysis, env), 0))
   ELSE log

\* the branch of the webhook that handles the message
WebhookBranch(phone_number, search_ctx, analysis, env) ==
   IF Pending(search_ctx) /\ analysis.action = "show_more"
   THEN ShowMoreBranch(phone_number, search_ctx, env)
   ELSE IF analysis.action = "find_product"
   THEN FindProductBranch(phone_number, analysis, env)
   ELSE IF analysis.action = "find_product_by_range"
   THEN RangeBranch(phone_number, analysis, env)
   ELSE OtherBranch(analysis)

\* POST /webhook with a text message of phone_number, but for the history
\* of the deliveries
WebhookHandled(phone_number, analysis, env) ==
   /\ op = "idle"
   /\ op' = "webhook"
   /\ args' = [phone_number |-> phone_number, analysis |-> analysis,
               search_ctx |-> get_search_context(search_contexts, phone_number)]
   /\ WebhookBranch(phone_number, get_search_context(search_contexts, phone_number),
                    analysis, env)
   /\ UNCHANGED <<catalog, handlers, context_log, user_states>>

\* POST /webhook with a text message of phone_number
WebhookText(phone_number, analysis, env) ==
   /\ WebhookHandled(phone_number, analysis, env)
   /\ UNCHANGED delivery_log

\* the same request, with the deliveries of the session kept as history
WebhookTurn(phone_number, analysis, env) ==
   /\ WebhookHandled(phone_number, analysis, env)
   /\ delivery_log' = DeliveryLogAfter(delivery_log, phone_number,
                                       get_search_context(search_contexts, phone_number),
                                       analysis, env)

(***************************************************************************)
(* Conversations: new searches and show-more turns while the catalog       *)
(* changes                                                                 *)
(***************************************************************************)
SessionProducts ==
   { Product(n_rolex_sub, mens_watch, p2000, "u2", <<"b1", "b2">>),
     Product(n_rolex_fossil, mens_watch, p2500, "u5", <<"e1">>),
     Product(n_rolex_shades, womens_sunglasses, p1500, "u3", <<"c1">>) }

\* what the classifier may answer for a message
Analyses ==
   { Analysis("show_more", <<>>, None, None, None),
     Analysis("ai_chat", <<>>, None, None, None),
     Analysis("find_product", q_rolex, None, None, None),
     Analysis("find_product", q_rolex, Some(mens_watch), Some(2000), None),
     RangeAnalysis(mens_watch, 1500, 2500, q_rolex) }

\* the search service is up or down, the first download fails or none does,
\* and the messaging channel accepts no send, the first one or all of them
Envs ==
   { Env(api_up, failed, accepted) :
        api_up \in BOOLEAN, failed \in { {}, { 1 } },
        accepted \in { {}, { 1 }, 1..Cardinality(SessionProducts) } }

InitSession ==
   /\ catalog = <<>>
   /\ op = "idle"
   /\ args = NoArgs
   /\ result = NoArgs
   /\ product_cache = [phone \in Phones |-> None]
   /\ NoSessions

NextSession ==
   \/ \E product \in SessionProducts : AddProduct(product)
   \/ \E i \in 1..MaxCatalog : DeleteProduct(i)
   \/ \E phone_number \in Phones, analysis \in Analyses, env \in Envs :
         WebhookText(phone_number, analysis, env)
   \/ Return

SpecSession == InitSession /\ [][NextSession]_vars

\* the session the turn being returned found, and the one it left
SessionBefore == args.search_ctx

SessionAfter == get_search_context(search_contexts, args.phone_number)

SentBefore == DictGet(SessionBefore, "sent_count", 0)

\* a show-more turn of a conversation with pending products is being returned
ShowMoreHandled ==
   /\ op = "webhook"
   /\ args.analysis.action = "show_more"
   /\ Pending(SessionBefore)

\* C13: in every reachable state the session of every conversation has
\* 0 <= sent_count <= total_found, whatever new searches, show-more turns,
\* delivery failures and catalog changes came before
C13_SentWithinTotal ==
   \A phone_number \in DOMAIN search_contexts :
      /\ 0 <= search_contexts[phone_number].sent_count
      /\ search_contexts[phone_number].sent_count
            <= search_contexts[phone_number].total_found

\* C14: a show-more turn handled while sent_count < total_found leaves the
\* stored sent_count strictly greater than it was, and not above total_found
C14_ShowMoreAdvances ==
   ShowMoreHandled
   => /\ SessionAfter.sent_count > SentBefore
      /\ SessionAfter.sent_count <= SessionAfter.total_found

\* C15: a show-more asked for in a conversation whose session has
\* sent_count >= total_found is answered with the "you've seen all" message
\* and no search is posted
C15_ExhaustedSaysSeenAll ==
   (/\ op = "webhook"
    /\ args.analysis.action = "show_more"
    /\ SessionBefore # EmptyDict
    /\ SeenAll(SessionBefore))
   => /\ \E i \in 1..Len(result.texts) : result.texts[i] = "seen_all"
      /\ result.searches = <<>>

\* C16: a show-more turn posts the search that created the session again: the
\* same kind, category_key, min_price and max_price, from the stored sent_count
C16_ShowMoreRepeatsOrigin ==
   ShowMoreHandled
   => result.searches =
         << [session_origin[args.phone_number] EXCEPT !.start_index = SentBefore] >>

\* the products the session had delivered before the turn being returned
DeliveredBefore == IF args.analysis.action = "show_more" THEN SentBefore ELSE 0

\* C17: after a turn that saved the session, the sent_count stored for the
\* conversation, in the session and in product_cache, is the number of
\* products delivered so far: the count before the turn plus its deliveries
C17_SentCountIsDelivered ==
   (op = "webhook" /\ result.saved)
   => /\ SessionAfter.sent_count = DeliveredBefore + Len(result.delivered)
      /\ Get(product_cache[args.phone_number]).sent_count
            = DeliveredBefore + Len(result.delivered)

(***************************************************************************)
(* One conversation on a catalog that does not change                      *)
(***************************************************************************)
\* three products that the keyword rolex finds, each with an image
DeliveryCatalog ==
   << Product(n_rolex_sub, mens_watch, p2000, "u2", <<"b1", "b2">>),
      Product(n_rolex_fossil, mens_watch, p2500, "u5", <<"e1">>),
      Product(n_rolex_shades, womens_sunglasses, p1500, "u3", <<"c1">>) >>

DeliveryAnalyses ==
   { Analysis("find_product", q_rolex, None, None, None),
     Analysis("show_more", <<>>, None, None, None),
     Analysis("ai_chat", <<>>, None, None, None) }

\* every download succeeds; the messaging channel accepts any of the sends
DeliveryEnvs ==
   { Env(api_up, {}, accepted) :
        api_up \in BOOLEAN, accepted \in SUBSET (1..Len(DeliveryCatalog)) }

InitDelivery ==
   /\ catalog = DeliveryCatalog
   /\ op = "idle"
   /\ args = NoArgs
   /\ result = NoArgs
   /\ product_cache = [phone \in Phones |-> None]
   /\ NoSessions

NextDelivery ==
   \/ \E phone_number \in Phones, analysis \in DeliveryAnalyses, env \in DeliveryEnvs :
         WebhookTurn(phone_number, analysis, env)
   \/ Return

SpecDelivery == InitDelivery /\ [][NextDelivery]_vars

\* C28: within one pagination session on an unchanged catalog, the window of
\* a show-more turn contains no product that an earlier turn of the session
\* delivered, also when deliveries of an earlier batch failed
C28_NoDoubleDelivery ==
   (ShowMoreHandled /\ result.saved)
   => delivery_log[args.phone_number].window
         \cap delivery_log[args.phone_number].earlier = {}

(***************************************************************************)
(* The questions of the bot: orchestrator.user_states in the webhook       *)
(***************************************************************************)
\* del dict[key]
DictRemove(dict, key) == [k \in DOMAIN dict \ { key } |-> dict[k]]

\* str.isdigit()
IsDigitText(s) == s # <<>> /\ \A i \in 1..Len(s) : IsDigit(s[i])

\* what a branch leaves: the branch, user_states, search_contexts, product_cache
Handled(branch, states, contexts, cache) ==
   [branch |-> branch, user_states |-> states, search_contexts |-> contexts,
    product_cache |-> cache]

\* a branch that posts no search
NoSearch(branch, states) == Handled(branch, states, search_contexts, product_cache)

\* the filters a session is saved with
SavedFilters(min_price, max_price, category_key) ==
   [min_price |-> min_price, max_price |-> max_price, category_key |-> category_key]

NoFilters == SavedFilters(None, None, None)

\* send_product_images_v2 from offset 0 and, if it succeeded,
\* save_search_context with the filters in saved
SearchTurn(branch, states, phone_number, keyword, min_price, max_price, category_key, saved, env) ==
   LET outcome == SendOf(catalog, keyword, 0, min_price, max_price, category_key, env)
   IN  Handled(branch, states,
               IF outcome.success
               THEN save_search_context(search_contexts, phone_number, keyword,
                                        outcome.total_found, outcome.success_count,
                                        saved.min_price, saved.max_price, saved.category_key)
               ELSE search_contexts,
               CacheAfterSend(product_cache, phone_number, outcome))

priority_brands ==
   << q_fossil, q_rolex, <<"a","r","m","a","n","i">>, <<"o","m","e","g","a">> >>

BrandBatchSize == 3

\* product_cache after the sends of the brands from the i-th on
RECURSIVE CacheAfterBrands(_, _, _, _, _, _, _)
CacheAfterBrands(cache, phone_number, i, category_key, min_price, max_price, env) ==
   IF i > Len(priority_brands) THEN cache
   ELSE CacheAfterBrands(
           CacheAfterSend(cache, phone_number,
                          send_product_images_v2(catalog, priority_brands[i], 0,
                                                 BrandBatchSize, min_price, max_price,
                                                 category_key, env.api_up, env.failed,
                                                 env.accepted)),
           phone_number, i + 1, category_key, min_price, max_price, env)

\* a batch of each priority brand; no session is saved
ShowAllBrands(branch, states, phone_number, category_key, min_price, max_price, env) ==
   Handled(branch, states, search_contexts,
           CacheAfterBrands(product_cache, phone_number, 1, category_key, min_price,
                            max_price, env))

watch_categories ==
   { mens_watch, <<"w","o","m","e","n","s","_","w","a","t","c","h">>,
     <<"m","e","n","s","_","w","a","t","c","h","e","s">>,
     <<"w","o","m","e","n","s","_","w","a","t","c","h","e","s">>,
     <<"m","e","n","_","w","a","t","c","h">>,
     <<"w","o","m","e","n","_","w","a","t","c","h">> }

\* the category keys offered for a product type
CategoryKeys(product_type) ==
   IF product_type = "watch"
   THEN <<mens_watch, <<"w","o","m","e","n","s","_","w","a","t","c","h">> >>
   ELSE IF product_type = "sunglasses"
   THEN << <<"m","e","n","s","_","s","u","n","g","l","a","s","s","e","s">>,
           womens_sunglasses >>
   ELSE IF product_type = "shoes"
   THEN << <<"m","e","n","s","_","s","h","o","e","s">>,
           <<"w","o","m","e","n","s","_","s","h","o","e","s">> >>
   ELSE IF product_type = "bag"
   THEN << <<"h","a","n","d","b","a","g">> >>
   ELSE << product_type >>

\* the question asked after a find_product without keyword
BrandQuestion(waiting_for, analysis) ==
   [waiting_for |-> waiting_for, category_key |-> analysis.category_key,
    min_price |-> analysis.min_price, max_price |-> analysis.max_price]

\* the find_product branch
FindProductAction(phone_number, analysis, env) ==
   IF Strip(analysis.keyword) = <<>> /\ Truthy(analysis.category_key)
   THEN IF Get(analysis.category_key) \in watch_categories
        THEN NoSearch("ask_brand",
                      DictSet(user_states, phone_number,
                              BrandQuestion("generic_brand_selection", analysis)))
        ELSE NoSearch("ask_keyword",
                      DictSet(user_states, phone_number,
                              BrandQuestion("non_watch_keyword_search", analysis)))
   ELSE IF Strip(analysis.keyword) = <<>>
   THEN NoSearch("find_product", user_states)
   ELSE SearchTurn("find_product", user_states, phone_number, Strip(analysis.keyword),
                   analysis.min_price, analysis.max_price, analysis.category_key,
                   NoFilters, env)

\* the branches on the action of the classifier
ActionBranch(phone_number, analysis, env) ==
   IF analysis.action = "show_all_brands"
   THEN ShowAllBrands("show_all_brands", user_states, phone_number, analysis.category_key,
                      analysis.min_price, analysis.max_price, env)
   ELSE IF analysis.action = "find_product"
   THEN FindProductAction(phone_number, analysis, env)
   ELSE IF analysis.action = "ask_category_selection"
   THEN NoSearch("ask_category_selection",
                 DictSet(user_states, phone_number,
                         [waiting_for |-> "category_or_brand",
                          product_type |-> DictGet(analysis, "product_type", "watch"),
                          categories |->
                             CategoryKeys(DictGet(analysis, "product_type", "watch"))]))
   ELSE NoSearch(analysis.action, user_states)

\* the answer to the category question: a number picks the category and the
\* brand is asked for; a number that picks none is left to the classifier;
\* any other text is searched as a brand of the first category
CategoryOrBrand(phone_number, user_state, conversation, analysis, env) ==
   IF IsDigitText(Strip(conversation))
   THEN IF /\ 1 <= ParseDigits(Strip(conversation), 0)
           /\ ParseDigits(Strip(conversation), 0) <= Len(user_state.categories)
        THEN NoSearch("category_or_brand",
                      DictSet(user_states, phone_number,
                              [waiting_for |-> "brand_selection",
                               product_type |-> user_state.product_type,
                               category_key |->
                                  Some(user_state.categories[
                                          ParseDigits(Strip(conversation), 0)])]))
        ELSE ActionBranch(phone_number, analysis, env)
   ELSE SearchTurn("category_or_brand", DictRemove(user_states, phone_number),
                   phone_number, Strip(conversation), None, None,
                   Some(IF user_state.categories # <<>> THEN user_state.categories[1]
                        ELSE mens_watch),
                   NoFilters, env)

NonWatchKeywordSearch(phone_number, user_state, conversation, env) ==
   IF Lower(Strip(conversation)) # <<>>
   THEN SearchTurn("non_watch_keyword_search", DictRemove(user_states, phone_number),
                   phone_number, Lower(Strip(conversation)), user_state.min_price,
                   user_state.max_price, user_state.category_key,
                   SavedFilters(user_state.min_price, user_state.max_price,
                                user_state.category_key), env)
   ELSE NoSearch("non_watch_keyword_search", DictRemove(user_states, phone_number))

GenericBrandSelection(phone_number, user_state, analysis, env) ==
   IF analysis.action = "show_all_brands"
   THEN ShowAllBrands("generic_brand_selection", DictRemove(user_states, phone_number),
                      phone_number, user_state.category_key, user_state.min_price,
                      user_state.max_price, env)
   ELSE IF analysis.action = "find_product" /\ Strip(analysis.keyword) # <<>>
   THEN SearchTurn("generic_brand_selection", DictRemove(user_states, phone_number),
                   phone_number, Strip(analysis.keyword), user_state.min_price,
                   user_state.max_price, user_state.category_key, NoFilters, env)
   ELSE NoSearch("generic_brand_selection", DictRemove(user_states, phone_number))

AnyBrand ==
   { <<"a","n","y">>, <<"k","o","i"," ","b","h","i">>,
     <<"k","o","i"," ","b","h","i"," ","c","h","a","l","e","g","a">>,
     <<"r","a","n","d","o","m">> }

\* the products of the category, of which $sample draws one
OfCategory(docs, category_key) ==
   SelectSeq(docs, LAMBDA doc : Some(doc.category_key) = category_key)

\* the answer to the brand question; sample is the draw of $sample
BrandSelection(phone_number, user_state, conversation, env, sample) ==
   IF Lower(Strip(conversation)) \in AnyBrand
   THEN IF OfCategory(catalog, user_state.category_key) # <<>>
        THEN SearchTurn("brand_selection", DictRemove(user_states, phone_number),
                        phone_number,
                        Split(OfCategory(catalog, user_state.category_key)[
                                 (sample % Len(OfCategory(catalog,
                                                          user_state.category_key))) + 1
                              ].name)[1],
                        None, None, user_state.category_key, NoFilters, env)
        ELSE NoSearch("brand_selection", DictRemove(user_states, phone_number))
   ELSE SearchTurn("brand_selection", DictRemove(user_states, phone_number),
                   phone_number, Lower(Strip(conversation)), None, None,
                   user_state.category_key, NoFilters, env)

WaitingFor(user_state) == DictGet(user_state, "waiting_for", "")

\* lines 875-1046: no products are pending; the question asked, if any
QuestionFlow(phone_number, user_state, conversation, analysis, env, sample) ==
   IF WaitingFor(user_state) = "category_or_brand"
   THEN CategoryOrBrand(phone_number, user_state, conversation, analysis, env)
   ELSE IF WaitingFor(user_state) = "non_watch_keyword_search"
   THEN NonWatchKeywordSearch(phone_number, user_state, conversation, env)
   ELSE IF WaitingFor(user_state) = "generic_brand_selection"
   THEN GenericBrandSelection(phone_number, user_state, analysis, env)
   ELSE IF WaitingFor(user_state) = "brand_selection"
   THEN BrandSelection(phone_number, user_state, conversation, env, sample)
   ELSE ActionBranch(phone_number, analysis, env)

\* lines 826-873 with pending products: show more of them, or else the
\* branch of the action of the classifier
PendingFlow(phone_number, search_ctx, analysis, env) ==
   IF analysis.action = "show_more"
   THEN Handled("show_more", user_states,
                ShowMoreContexts(search_contexts, phone_number, search_ctx,
                                 ShowMoreSend(catalog, search_ctx, env)),
                CacheAfterSend(product_cache, phone_number,
                               ShowMoreSend(catalog, search_ctx, env)))
   ELSE ActionBranch(phone_number, analysis, env)

\* the text message handler from the pending check on
DialogueTurn(phone_number, conversation, analysis, env, sample) ==
   IF Pending(get_search_context(search_contexts, phone_number))
   THEN PendingFlow(phone_number, get_search_context(search_contexts, phone_number),
                    analysis, env)
   ELSE QuestionFlow(phone_number, DictGet(user_states, phone_number, EmptyDict),
                     conversation, analysis, env, sample)

\* POST /webhook with the text conversation of phone_number, the questions
\* of the bot included
WebhookDialogue(phone_number, conversation, analysis, env, sample) ==
   /\ op = "idle"
   /\ op' = "webhook"
   /\ args' = [phone_number |-> phone_number, conversation |-> conversation,
               analysis |-> analysis,
               search_ctx |-> get_search_context(search_contexts, phone_number),
               user_state |-> DictGet(user_states, phone_number, EmptyDict)]
   /\ result' = [branch |-> DialogueTurn(phone_number, conversation, analysis, env,
                                         sample).branch]
   /\ user_states' = DialogueTurn(phone_number, conversation, analysis, env,
                                  sample).user_states
   /\ search_contexts' = DialogueTurn(phone_number, conversation, analysis, env,
                                      sample).search_contexts
   /\ product_cache' = DialogueTurn(phone_number, conversation, analysis, env,
                                    sample).product_cache
   /\ UNCHANGED <<catalog, handlers, session_origin, context_log, delivery_log>>

\* the classifier asks for the category of a product type
CategoryAnalysis(product_type) ==
   [action |-> "ask_category_selection", keyword |-> <<>>, category_key |-> None,
    min_price |-> None, max_price |-> None, category |-> <<>>, product_name |-> <<>>,
    product_type |-> product_type]

DialogueAnalyses ==
   { Analysis("show_more", <<>>, None, None, None),
     Analysis("ai_chat", <<>>, None, None, None),
     Analysis("find_product", q_rolex, None, None, None),
     Analysis("find_product", <<>>, Some(mens_watch), None, None),
     Analysis("find_product", <<>>, Some(womens_sunglasses), None, Some(2000)),
     Analysis("show_all_brands", <<>>, Some(mens_watch), None, None),
     CategoryAnalysis("watch"),
     CategoryAnalysis("bag") }

Conversations == { <<"1">>, <<"9">>, <<"R","o","l","e","x">>, <<"a","n","y">> }

DialogueEnvs ==
   { Env(api_up, {}, accepted) :
        api_up \in BOOLEAN, accepted \in { {}, { 1 }, 1..Len(DeliveryCatalog) } }

Samples == { 0, 1 }

NextDialogue ==
   \/ \E phone_number \in Phones, conversation \in Conversations,
         analysis \in DialogueAnalyses, env \in DialogueEnvs, sample \in Samples :
         WebhookDialogue(phone_number, conversation, analysis, env, sample)
   \/ Return

SpecDialogue == InitDelivery /\ [][NextDialogue]_vars

Questions ==
   { "category_or_brand", "brand_selection", "generic_brand_selection",
     "non_watch_keyword_search" }

\* C29: once the bot has asked a category or brand question, the next text
\* message of the phone is handled by the branch of that question, and the
\* question is then removed or advanced to brand_selection, with or without
\* a pagination session that has products pending
C29_QuestionAnswered ==
   (op = "webhook" /\ WaitingFor(args.user_state) \in Questions)
   => /\ result.branch = WaitingFor(args.user_state)
      /\ \/ args.phone_number \notin DOMAIN user_states
         \/ WaitingFor(user_states[args.phone_number]) = "brand_selection"

(***************************************************************************)
(* The search contexts of the orchestrator, called directly                *)
(***************************************************************************)
ContextIds == { "p1", "p2" }

\* contexts a caller may store: dicts with different keys
Contexts ==
   { EmptyDict,
     [sent_count |-> 1],
     [keyword |-> q_rolex, total_found |-> 3, sent_count |-> 1],
     [keyword |-> q_rolex, total_found |-> 3, sent_count |-> 2, category_key |-> mens_watch] }

MaxUpdates == 3

\* orchestrator.update_search_context(phone_number, context)
UpdateSearchContext(phone_number, context) ==
   /\ op = "idle"
   /\ Len(context_log) < MaxUpdates
   /\ op' = "update_search_context"
   /\ args' = [phone_number |-> phone_number, context |-> context]
   /\ result' = NoArgs
   /\ search_contexts' = update_search_context(search_contexts, phone_number, context)
   /\ context_log' = Append(context_log, [phone_number |-> phone_number, context |-> context])
   /\ UNCHANGED <<catalog, product_cache, handlers, session_origin, delivery_log, user_states>>

\* orchestrator.get_search_context(phone_number)
GetSearchContext(phone_number) ==
   /\ op = "idle"
   /\ op' = "get_search_context"
   /\ args' = [phone_number |-> phone_number]
   /\ result' = [context |-> get_search_context(search_contexts, phone_number)]
   /\ UNCHANGED <<catalog, product_cache>>
   /\ UNCHANGED session_vars

NextContext ==
   \/ \E phone_number \in ContextIds, context \in Contexts :
         UpdateSearchContext(phone_number, context)
   \/ \E phone_number \in ContextIds : GetSearchContext(phone_number)
   \/ Return

SpecContext == Init /\ [][NextContext]_vars

\* the positions of the log at which a context was saved for the id
SavesOf(phone_number) ==
   { i \in 1..Len(context_log) : context_log[i].phone_number = phone_number }

Latest(positions) == CHOOSE i \in positions : \A j \in positions : j <= i

\* C18: get_search_context answers exactly the context of the latest
\* update_search_context for the id, whatever was stored before it, and the
\* empty context for an id for which none was ever saved
C18_GetReturnsLastSaved ==
   op = "get_search_context"
   => result.context =
         IF SavesOf(args.phone_number) = {} THEN EmptyDict
         ELSE context_log[Latest(SavesOf(args.phone_number))].context

\* the context of an id is read after a context with fewer keys replaced one
C18_SmallerOverwrites ==
   /\ op = "get_search_context"
   /\ \E i \in SavesOf(args.phone_number) :
         /\ i < Latest(SavesOf(args.phone_number))
         /\ ~(DOMAIN context_log[i].context
                 \subseteq DOMAIN context_log[Latest(SavesOf(args.phone_number))].context)

(***************************************************************************)
(* The webhook handled by the threads of the server: app.run serves every  *)
(* request in a thread of its own, and the handler takes no lock between   *)
(* reading the session and saving it                                       *)
(***************************************************************************)
ConcurrentCatalog ==
   << Product(n_rolex_sub, mens_watch, p2000, "u2", <<"b1", "b2">>),
      Product(n_rolex_fossil, mens_watch, p2500, "u5", <<"e1">>),
      Product(n_rolex_shades, womens_sunglasses, p1500, "u3", <<"c1">>) >>

\* the messages of the conversation: a keyword search and "more"
ConcurrentAnalyses ==
   { Analysis("find_product", q_rolex, None, None, None),
     Analysis("show_more", <<>>, None, None, None) }

InFlight(h) == handlers[h].pc # "idle"

\* lines 828-845: the handler reads the session and has the message
\* classified; a show_more without pending products ends the request
ReadSession(h, phone_number, analysis) ==
   /\ op = "idle"
   /\ ~InFlight(h)
   /\ analysis.action = "show_more"
         => Pending(get_search_context(search_contexts, phone_number))
   /\ handlers' = [handlers EXCEPT ![h] =
                      [pc |-> "read", phone_number |-> phone_number,
                       analysis |-> analysis,
                       search_ctx |-> get_search_context(search_contexts, phone_number)]]
   /\ UNCHANGED <<catalog, op, args, result, product_cache, search_contexts,
                  session_origin, context_log, delivery_log, user_states>>

\* the send of the handler: from the sent_count it read, or from 0
HandlerSend(handler, env) ==
   IF handler.analysis.action = "show_more"
   THEN ShowMoreSend(catalog, handler.search_ctx, env)
   ELSE FindProductSend(catalog, handler.analysis, env)

\* lines 856-860 and 1168-1171: the handler searches and sends its batch
SendProducts(h, env) ==
   /\ op = "idle"
   /\ handlers[h].pc = "read"
   /\ handlers' = [handlers EXCEPT ![h] =
                      [pc |-> "sent", phone_number |-> handlers[h].phone_number,
                       analysis |-> handlers[h].analysis,
                       search_ctx |-> handlers[h].search_ctx,
                       success |-> HandlerSend(handlers[h], env).success,
                       total_found |-> HandlerSend(handlers[h], env).total_found,
                       success_count |-> HandlerSend(handlers[h], env).success_count,
                       delivered |-> HandlerSend(handlers[h], env).delivered]]
   /\ product_cache' = CacheAfterSend(product_cache, handlers[h].phone_number,
                                      HandlerSend(handlers[h], env))
   /\ UNCHANGED <<catalog, op, args, result, search_contexts, session_origin,
                  context_log, delivery_log, user_states>>

\* lines 862-869 and 1172-1173: the handler saves the session and returns
SaveSession(h) ==
   /\ op = "idle"
   /\ handlers[h].pc = "sent"
   /\ search_contexts' =
         IF handlers[h].analysis.action = "show_more"
         THEN ShowMoreContexts(search_contexts, handlers[h].phone_number,
                               handlers[h].search_ctx, handlers[h])
         ELSE FindProductContexts(search_contexts, handlers[h].phone_number,
                                  handlers[h].analysis, handlers[h])
   /\ handlers' = [handlers EXCEPT ![h] = IdleHandler]
   /\ UNCHANGED <<catalog, op, args, result, product_cache, session_origin,
                  context_log, delivery_log, user_states>>

InitConcurrent ==
   /\ catalog = ConcurrentCatalog
   /\ op = "idle"
   /\ args = NoArgs
   /\ result = NoArgs
   /\ product_cache = [phone \in Phones |-> None]
   /\ NoSessions

NextConcurrent ==
   \/ \E h \in Handlers, phone_number \in Phones, analysis \in ConcurrentAnalyses :
         ReadSession(h, phone_number, analysis)
   \/ \E h \in Handlers, env \in Envs : SendProducts(h, env)
   \/ \E h \in Handlers : SaveSession(h)

SpecConcurrent == InitConcurrent /\ [][NextConcurrent]_vars

\* two handlers of one conversation are between reading and saving its session
BothInFlight(h1, h2) ==
   /\ h1 # h2
   /\ InFlight(h1)
   /\ InFlight(h2)
   /\ handlers[h1].phone_number = handlers[h2].phone_number

ShowMoreOf(h) == handlers[h].analysis.action = "show_more"

\* C19: no two handlers of one conversation are in flight at once, so that two
\* show-more messages handled concurrently never start from the same sent_count
C19_OneSearchInFlight ==
   \A h1, h2 \in Handlers :
      /\ ~BothInFlight(h1, h2)
      /\ (BothInFlight(h1, h2) /\ ShowMoreOf(h1) /\ ShowMoreOf(h2))
            => handlers[h1].search_ctx.sent_count # handlers[h2].search_ctx.sent_count

(***************************************************************************)
(* The store as other writers leave it: price text that is no number, and  *)
(* the limits the HTTP requests may carry                                  *)
(***************************************************************************)
n_rolex_oyster == <<"R","o","l","e","_","x"," ","O","y","s","t","e","r">>

p_not_available == <<"N","/","A">>

\* mens_watch products named with the brand role_x; the price of the third
\* is the text "N/A"
StoreProducts ==
   { Product(n_rolex_sub, mens_watch, p2000, "u2", <<"b1", "b2">>),
     Product(n_rolex_fossil, mens_watch, p2500, "u5", <<"e1">>),
     Product(n_rolex_oyster, mens_watch, p_not_available, "u6", <<"f1">>) }

\* the sequences without repetition of at most n elements of S
SeqsWithoutRepetition(S, n) ==
   { seq \in UNION { [1..k -> S] : k \in 0..n } :
        \A i, j \in 1..Len(seq) : seq[i] = seq[j] => i = j }

StoreCatalogs == SeqsWithoutRepetition(StoreProducts, Min(MaxCatalog, Cardinality(StoreProducts)))

StoreMaxResults == { 0, 1, 2 }

InitStore ==
   /\ catalog \in StoreCatalogs
   /\ op = "idle"
   /\ args = NoArgs
   /\ result = NoArgs
   /\ product_cache = [phone \in Phones |-> None]
   /\ NoSessions

NextStore ==
   \/ \E max_results \in StoreMaxResults, category_filter \in { None, Some(mens_watch) },
         min_price \in MinPrices, max_price \in MaxPrices :
         SearchByText(q_rolex, max_results, category_filter, min_price, max_price)
   \/ \E min_price \in { 1500, 2000 }, max_price \in { 2000, 2500 },
         max_results \in StoreMaxResults :
         SearchByPriceRange(mens_watch, min_price, max_price, max_results)
   \/ Return

SpecStore == InitStore /\ [][NextStore]_vars

(***************************************************************************)
(* Properties of the searches on such a store                              *)
(***************************************************************************)
NumericPrice(product) == ~IsNone(ToDouble(product.price))

\* the filter of the search that op names, built from its arguments
FilterOfCall ==
   IF op = "search_products_by_text"
   THEN and_conditions(args.query, args.category_filter, args.min_price, args.max_price)
   ELSE range_conditions(args.category, args.min_price, args.max_price)

PriceFilteredCall ==
   \/ op = "search_products_by_price_range"
   \/ op = "search_products_by_text" /\ (~IsNone(args.min_price) \/ ~IsNone(args.max_price))

\* C11: with a product in the catalog whose price text is no number, a
\* price-filtered keyword search and a range search raise no error and return
\* the matching products among those whose price is a number
C11_NonNumericSkipped ==
   (PriceFilteredCall /\ \E i \in 1..Len(catalog) : ~NumericPrice(catalog[i]))
   => /\ ~result.raised
      /\ result.products = Find(FilterOfCall, SelectSeq(catalog, NumericPrice),
                                args.max_results)

\* C12: for every max_results >= 0 the searches return at most max_results
\* products, and the returned list is a prefix, in store order, of the
\* products that match the filter
C12_CappedPrefix ==
   (/\ op \in { "search_products_by_text", "search_products_by_price_range" }
    /\ args.max_results >= 0
    /\ \A i \in 1..Len(catalog) : NumericPrice(catalog[i]))
   => LET matching == SelectSeq(catalog, LAMBDA doc : DocMatches(FilterOfCall, doc))
      IN  /\ ~result.raised
          /\ Len(result.products) <= args.max_results
          /\ result.products = SubSeq(matching, 1, Len(result.products))

\* the store fails the query of the range search being returned
RangeQueryFailed ==
   /\ op = "search_products_by_price_range"
   /\ QueryFails(range_conditions(args.category, args.min_price, args.max_price), catalog)

\* what the same range search answers on a store in which nothing matches
NothingMatched ==
   search_products_by_price_range(<<>>, args.category, args.min_price, args.max_price,
                                  args.max_results)

\* C24: a failure of the store is propagated as a failure: the range search
\* never answers it with what a search that matched nothing answers
C24_FailureIsDistinct == RangeQueryFailed => result # NothingMatched

\* t is s with some of its elements left out
RECURSIVE IsSubsequence(_, _)
IsSubsequence(t, s) ==
   IF t = <<>> THEN TRUE
   ELSE IF s = <<>> THEN FALSE
   ELSE IF Head(t) = Head(s) THEN IsSubsequence(Tail(t), Tail(s))
   ELSE IsSubsequence(t, Tail(s))

\* the images of product, each as the base64 text of its download
OwnImages(product) == [i \in 1..Len(product.image_urls) |-> Base64Of(product.image_urls[i])]

\* C27: in the response of /search/images-list every base64 image listed
\* under a product was downloaded from one of that product's own image_urls,
\* in that product's order, whichever downloads failed
C27_ImagesOfOwnProduct ==
   (op = "search_and_get_images" /\ result.status = "success")
   => \A i \in 1..Len(result.products) :
         IsSubsequence(result.products[i].images_base64,
                       OwnImages(ProductByUrl(result.products[i].product_url)))

(***************************************************************************)
(* The brand normaliser on its own table                                   *)
(***************************************************************************)
\* the keys and the values of BRAND_MAPPING
TableEntries ==
   { BrandKey(i) : i \in 1..Len(BRAND_MAPPING) }
      \cup { BrandValue(i) : i \in 1..Len(BRAND_MAPPING) }

\* the entries as written and with blanks around them
TableInputs ==
   TableEntries \cup { <<" ">> \o entry : entry \in TableEntries }
      \cup { entry \o <<" ">> : entry \in TableEntries }

NextBrand ==
   \/ \E keyword \in TableInputs : NormalizeBrand(keyword)
   \/ Return

SpecBrand == Init /\ [][NextBrand]_vars

\* C26: normalising is idempotent on the brand table: for every key and
\* every value x of BRAND_MAPPING, normalising normalize_brand_name(x) again
\* gives normalize_brand_name(x)
C26_IdempotentOnTable ==
   (op = "normalize_brand_name" /\ args.keyword \in TableEntries)
   => normalize_brand_name(result.value) = result.value

\* a key whose db name is no key: the second pass goes through the scan
C26_ValueScanned ==
   /\ op = "normalize_brand_name"
   /\ args.keyword = <<"p", "a", "t", "e", "k", " ", "p", "h", "i", "l", "i", "p", "p", "e">>
   /\ result.value # args.keyword
   /\ \A i \in 1..Len(BRAND_MAPPING) : BrandKey(i) # Strip(Lower(result.value))

(***************************************************************************)
(* gemini_vector_search.py: vector search over the embeddings of the       *)
(* products.  An embedding is a pair of non-negative integers, the cosine  *)
(* similarity of two embeddings is compared exactly, without roots         *)
(***************************************************************************)
\* what genai.embed_content did: raised, or answered with an embedding
EmbedRaised == [raised |-> TRUE, embedding |-> <<>>]

EmbedAnswer(embedding) == [raised |-> FALSE, embedding |-> embedding]

\* the failure is answered with a zero vector instead of no vector
generate_text_embedding_zero(answer) ==
   IF answer.raised THEN <<0, 0>> ELSE answer.embedding

\* GeminiVectorSearch.generate_text_embedding
generate_text_embedding(answer) ==
   IF answer.raised THEN <<>> ELSE answer.embedding

Dot(a, b) == a[1] * b[1] + a[2] * b[2]

\* cosine(a, q) > cosine(b, q), for vectors without negative components
Closer(a, b, q) == Dot(a, q) * Dot(a, q) * Dot(b, b) > Dot(b, q) * Dot(b, q) * Dot(a, a)

\* the documents the vector index holds: those with a text_embedding
RECURSIVE Indexed(_)
Indexed(docs) ==
   IF docs = <<>> THEN <<>>
   ELSE (IF IsNone(Head(docs).text_embedding) THEN <<>> ELSE <<Head(docs)>>)
        \o Indexed(Tail(docs))

Without(docs, i) == SubSeq(docs, 1, i - 1) \o SubSeq(docs, i + 1, Len(docs))

\* the position of the document nearest to the query, the first of equals
NearestIndex(docs, q) ==
   CHOOSE i \in 1..Len(docs) :
      /\ \A j \in 1..(i - 1) :
            Closer(Get(docs[i].text_embedding), Get(docs[j].text_embedding), q)
      /\ \A j \in (i + 1)..Len(docs) :
            ~Closer(Get(docs[j].text_embedding), Get(docs[i].text_embedding), q)

\* the k documents nearest to the query, nearest first
RECURSIVE Nearest(_, _, _)
Nearest(docs, q, k) ==
   IF k = 0 \/ docs = <<>> THEN <<>>
   ELSE <<docs[NearestIndex(docs, q)]>>
        \o Nearest(Without(docs, NearestIndex(docs, q)), q, k - 1)

VectorNumCandidates == 100

HybridNumCandidates == 200

\* the store refuses a $vectorSearch stage whose limit is not in 1..numCandidates
VectorStageFails(numCandidates, limit) == limit < 1 \/ limit > numCandidates

\* {"$vectorSearch": {..., "numCandidates": n, "limit": limit}}
VectorSearchStage(docs, q, numCandidates, limit) ==
   Nearest(Indexed(docs), q, Min(limit, numCandidates))

\* vectorSearchScore of a document, the cosine as a fraction: the dot product
\* over the root of the product of the two squared norms
Score(embedding, q) ==
   [dot |-> Dot(embedding, q), norms |-> Dot(embedding, embedding) * Dot(q, q)]

\* {"$project": {...}}: the fields of the answer; the embedding is left out
ProjectDoc(doc, q) ==
   [name |-> doc.name, brand |-> doc.brand, price |-> doc.price, colors |-> doc.colors,
    belt_type |-> doc.belt_type, ai_category |-> doc.ai_category,
    score |-> Score(Get(doc.text_embedding), q)]

Project(docs, q) == [i \in 1..Len(docs) |-> ProjectDoc(docs[i], q)]

\* GeminiVectorSearch.vector_search
vector_search(docs, answer, limit, store_up) ==
   IF generate_text_embedding(answer) = <<>> THEN Returned(<<>>, 0)
   ELSE IF ~store_up \/ VectorStageFails(VectorNumCandidates, limit) THEN Returned(<<>>, 1)
   ELSE Returned(Project(VectorSearchStage(docs, generate_text_embedding(answer),
                                           VectorNumCandidates, limit),
                         generate_text_embedding(answer)), 1)

\* str(n) of a number that is not negative
RECURSIVE Str(_)
Str(n) == IF n < 10 THEN <<Digits[n + 1]>> ELSE Str(n \div 10) \o <<Digits[(n % 10) + 1]>>

\* a <= b for two texts of digits, as the store orders strings: character by
\* character, a prefix before its extensions
RECURSIVE TextLte(_, _)
TextLte(a, b) ==
   IF a = <<>> THEN TRUE
   ELSE IF b = <<>> THEN FALSE
   ELSE IF Head(a) = Head(b) THEN TextLte(Tail(a), Tail(b))
   ELSE DigitValue(Head(a)) < DigitValue(Head(b))

\* filters.get(key) is a text or list that is not empty
GivenText(filters, key) == key \in DOMAIN filters /\ filters[key] # <<>>

\* filters.get(key) is a label (a text kept whole) that is not empty
GivenLabel(filters, key) == key \in DOMAIN filters /\ filters[key] # ""

\* filters.get('price_max') is a number other than 0
GivenNumber(filters, key) == key \in DOMAIN filters /\ filters[key] # 0

\* the document passes the $match stage built of the filters
MatchStage(doc, filters) ==
   /\ GivenText(filters, "colors")
         => \E i \in 1..Len(doc.colors), j \in 1..Len(filters["colors"]) :
               doc.colors[i] = filters["colors"][j]
   /\ GivenText(filters, "brand")
         => IsSubstring(Lower(filters["brand"]), Lower(doc.brand))
   /\ GivenNumber(filters, "price_max")
         => TextLte(doc.price, Str(filters["price_max"]))
   /\ GivenLabel(filters, "belt_type") => doc.belt_type = filters["belt_type"]
   /\ GivenLabel(filters, "ai_category") => doc.ai_category = filters["ai_category"]

RECURSIVE Match(_, _)
Match(docs, filters) ==
   IF docs = <<>> THEN <<>>
   ELSE (IF MatchStage(Head(docs), filters) THEN <<Head(docs)>> ELSE <<>>)
        \o Match(Tail(docs), filters)

\* the vector stage is given limit, not limit * 3
hybrid_search_narrow(docs, answer, filters, limit, store_up) ==
   IF generate_text_embedding(answer) = <<>> THEN Returned(<<>>, 0)
   ELSE IF ~store_up \/ VectorStageFails(HybridNumCandidates, limit)
   THEN Returned(<<>>, 1)
   ELSE Returned(Project(Match(VectorSearchStage(docs, generate_text_embedding(answer),
                                                 HybridNumCandidates, limit),
                               filters),
                         generate_text_embedding(answer)), 1)

\* GeminiVectorSearch.hybrid_search
hybrid_search(docs, answer, filters, limit, store_up) ==
   IF generate_text_embedding(answer) = <<>> THEN Returned(<<>>, 0)
   ELSE IF ~store_up \/ VectorStageFails(HybridNumCandidates, limit * 3)
   THEN Returned(<<>>, 1)
   ELSE Returned(SubSeq(Project(Match(VectorSearchStage(docs,
                                                        generate_text_embedding(answer),
                                                        HybridNumCandidates, limit * 3),
                                      filters),
                                generate_text_embedding(answer)),
                        1, Min(limit, Len(Match(VectorSearchStage(docs,
                                                   generate_text_embedding(answer),
                                                   HybridNumCandidates, limit * 3),
                                                filters)))), 1)

\* a document of the products collection; a document without the field
\* text_embedding has None for it
VectorDoc(name, brand, price, colors, belt_type, ai_category, text_embedding) ==
   [name |-> name, brand |-> brand, price |-> price, colors |-> colors,
    belt_type |-> belt_type, ai_category |-> ai_category, category_key |-> mens_watch,
    text_embedding |-> text_embedding]

b_rolex == <<"R","o","l","e","x">>

b_fossil == <<"F","o","s","s","i","l">>

p900 == <<"9","0","0">>

d_sub == VectorDoc(n_rolex_sub, b_rolex, p2000, <<"black">>, "metal_belt", "luxury", Some(<<1, 0>>))

d_oyster == VectorDoc(n_rolex_oyster, b_rolex, p900, <<"gold", "black">>, "leather_belt", "luxury", Some(<<1, 1>>))

d_fossil == VectorDoc(n_plain_fossil, b_fossil, p1500, <<"blue">>, "leather_belt", "casual", Some(<<0, 1>>))

d_duo == VectorDoc(n_rolex_fossil, b_fossil, p2500, <<"black">>, "metal_belt", "casual", Some(<<2, 1>>))

d_unindexed == VectorDoc(n_classic_watch, b_rolex, p1000, <<"black">>, "metal_belt", "luxury", None)

d_new == VectorDoc(n_fossil_gen, b_fossil, p1500, <<"blue">>, "leather_belt", "casual", None)

VectorCollections ==
   { <<d_sub, d_oyster, d_fossil, d_duo, d_unindexed>>,
     <<d_unindexed, d_duo, d_fossil, d_oyster>>,
     <<d_oyster, d_sub>>,
     <<d_new, d_sub, d_unindexed>>,
     <<>> }

\* the model answers the query, answers without a vector, or fails
EmbedAnswers ==
   { EmbedRaised, EmbedAnswer(<<>>), EmbedAnswer(<<1, 0>>), EmbedAnswer(<<0, 1>>),
     EmbedAnswer(<<3, 1>>) }

VectorFilters ==
   { EmptyDict,
     [colors |-> <<"black">>],
     [brand |-> q_rolex],
     [price_max |-> 2000],
     [price_max |-> 5000],
     [belt_type |-> "metal_belt", ai_category |-> "luxury"],
     [colors |-> <<"black", "gold">>, brand |-> q_fossil, price_max |-> 0] }

\* limits below, at and above what the two candidate pools (100 and 200) allow
VectorLimits == { 0, 1, 2, 34, 67 }

InitVector ==
   /\ catalog \in VectorCollections
   /\ op = "idle"
   /\ args = NoArgs
   /\ result = NoArgs
   /\ product_cache = [phone \in Phones |-> None]
   /\ NoSessions

\* search.vector_search(query, limit)
VectorSearch(answer, limit, store_up) ==
   /\ op = "idle"
   /\ op' = "vector_search"
   /\ args' = [answer |-> answer, filters |-> EmptyDict, limit |-> limit,
               store_up |-> store_up]
   /\ result' = vector_search(catalog, answer, limit, store_up)
   /\ UNCHANGED <<catalog, product_cache>>
   /\ UNCHANGED session_vars

\* search.hybrid_search(query, filters, limit)
HybridSearch(answer, filters, limit, store_up) ==
   /\ op = "idle"
   /\ op' = "hybrid_search"
   /\ args' = [answer |-> answer, filters |-> filters, limit |-> limit,
               store_up |-> store_up]
   /\ result' = hybrid_search(catalog, answer, filters, limit, store_up)
   /\ UNCHANGED <<catalog, product_cache>>
   /\ UNCHANGED session_vars

NextVector ==
   \/ \E answer \in EmbedAnswers, limit \in VectorLimits, store_up \in BOOLEAN :
         VectorSearch(answer, limit, store_up)
   \/ \E answer \in EmbedAnswers, filters \in VectorFilters, limit \in VectorLimits,
         store_up \in BOOLEAN :
         HybridSearch(answer, filters, limit, store_up)
   \/ Return

SpecVector == InitVector /\ [][NextVector]_vars

\* the embedding of the query could not be had
NoQueryVector == args.answer.raised \/ args.answer.embedding = <<>>

\* C20: when the embedding of the query fails or comes back without a vector,
\* vector_search and hybrid_search answer the empty list, raise nothing and
\* put no query to the store
C20_NoEmbeddingNoSearch ==
   (op \in { "vector_search", "hybrid_search" } /\ NoQueryVector)
   => /\ result.products = <<>>
      /\ ~result.raised
      /\ result.store_reads = 0

\* a search that would have found products has no query vector
C20_FailedEmbedding ==
   /\ op = "hybrid_search"
   /\ args.answer.raised
   /\ args.store_up
   /\ args.limit = 2
   /\ Indexed(catalog) # <<>>
   /\ args.filters = EmptyDict
   /\ result.products = <<>>

\* a search with a query vector that the store answers
SearchAnswered(name) ==
   /\ op = name
   /\ ~NoQueryVector
   /\ args.store_up

\* the score of document a is higher than the score of document b
ScoreAbove(a, b) ==
   a.score.dot * a.score.dot * b.score.norms > b.score.dot * b.score.dot * a.score.norms

\* the projection of the indexed documents of the catalog for the query
Scored == Project(Indexed(catalog), args.answer.embedding)

\* the documents among the n nearest: fewer than n documents score higher
AmongNearest(n) ==
   { i \in 1..Len(Scored) :
        Cardinality({ j \in 1..Len(Scored) : ScoreAbove(Scored[j], Scored[i]) }) < n }

\* the candidates of the hybrid search that pass the filters
Eligible ==
   { i \in AmongNearest(3 * args.limit) : MatchStage(Indexed(catalog)[i], args.filters) }

\* the result is the first limit eligible documents, best score first
FirstEligible ==
   /\ Len(result.products) = Min(args.limit, Cardinality(Eligible))
   /\ \A k \in 1..Len(result.products) :
         \E i \in Eligible :
            /\ result.products[k] = Scored[i]
            /\ Cardinality({ j \in Eligible : ScoreAbove(Scored[j], Scored[i]) }) = k - 1

Names(products) == { products[i].name : i \in 1..Len(products) }

\* the result is within vector_search(q, 3 * limit) and the matching products
WithinVectorSearch ==
   /\ Names(result.products)
         \subseteq Names(vector_search(catalog, args.answer, 3 * args.limit,
                                       args.store_up).products)
   /\ \A k \in 1..Len(result.products) :
         \E i \in 1..Len(Scored) :
            /\ result.products[k] = Scored[i]
            /\ MatchStage(Indexed(catalog)[i], args.filters)

OtherFilters == [key \in DOMAIN args.filters \ { "price_max" } |-> args.filters[key]]

\* the candidates whose price, read as a number, is within the ceiling and
\* that pass the other filters
WithinCeiling ==
   { i \in AmongNearest(3 * args.limit) :
        /\ MatchStage(Indexed(catalog)[i], OtherFilters)
        /\ ~IsNone(ToDouble(Scored[i].price))
        /\ Get(ToDouble(Scored[i].price)) <= args.filters["price_max"] }

\* C22: with a price ceiling m among the filters, hybrid_search keeps a
\* candidate if and only if its price, read as a number, is <= m: when the
\* limit cuts nothing, the result is the candidates within the ceiling
C22_NumericCeiling ==
   (/\ SearchAnswered("hybrid_search")
    /\ GivenNumber(args.filters, "price_max")
    /\ args.limit >= Len(Scored)
    /\ 3 * args.limit <= HybridNumCandidates)
   => Names(result.products) = { Scored[i].name : i \in WithinCeiling }

(***************************************************************************)
(* gemini_vector_search.py: index maintenance                              *)
(***************************************************************************)
\* GeminiVectorSearch.create_searchable_text: the text is kept as the parts
\* it is joined of, the texts among them in lower case
create_searchable_text(product) ==
   [name |-> Lower(product.name), brand |-> Lower(product.brand),
    colors |-> product.colors, belt_type |-> product.belt_type,
    ai_category |-> product.ai_category, price |-> product.price]

\* {"text_embedding": {"$exists": False}}
Unindexed(product) == IsNone(product.text_embedding)

\* update_one({"_id": ...}, {"$set": {text_embedding, searchable_text, indexed_at}})
SetEmbedding(product, embedding, now) ==
   [field \in DOMAIN product \cup { "searchable_text", "indexed_at" } |->
       IF field = "text_embedding" THEN Some(embedding)
       ELSE IF field = "searchable_text" THEN create_searchable_text(product)
       ELSE IF field = "indexed_at" THEN now
       ELSE product[field]]

\* the body of the loop: the product is updated if an embedding was obtained
IndexOne(product, answer, now) ==
   IF generate_text_embedding(answer) # <<>>
   THEN SetEmbedding(product, generate_text_embedding(answer), now)
   ELSE product

\* every product is embedded again, with or without an embedding
RECURSIVE IndexFrom_all(_, _, _, _)
IndexFrom_all(docs, answers, k, now) ==
   IF docs = <<>> THEN <<>>
   ELSE IF k > Len(answers) THEN docs
   ELSE <<IndexOne(Head(docs), answers[k], now)>>
        \o IndexFrom_all(Tail(docs), answers, k + 1, now)

\* the loop over the products found without an embedding; answers[k] is what
\* the embedding model answers for the k-th of them
RECURSIVE IndexFrom(_, _, _, _)
IndexFrom(docs, answers, k, now) ==
   IF docs = <<>> THEN <<>>
   ELSE IF Unindexed(Head(docs))
   THEN <<IndexOne(Head(docs), answers[k], now)>>
        \o IndexFrom(Tail(docs), answers, k + 1, now)
   ELSE <<Head(docs)>> \o IndexFrom(Tail(docs), answers, k, now)

\* GeminiVectorSearch.index_products: the collection after the run
index_products(docs, answers, now) == IndexFrom(docs, answers, 1, now)

UnindexedCount(docs) == Cardinality({ i \in 1..Len(docs) : Unindexed(docs[i]) })

\* the model embeds the text of a product, answers without a vector, or fails
IndexAnswers == { EmbedRaised, EmbedAnswer(<<>>), EmbedAnswer(<<1, 2>>) }

\* datetime.now().isoformat() of two runs
Clock == { "t1", "t2" }

\* search.index_products()
IndexProducts(answers, now) ==
   /\ op = "idle"
   /\ op' = "index_products"
   /\ args' = [answers |-> answers, now |-> now]
   /\ result' = NoArgs
   /\ catalog' = index_products(catalog, answers, now)
   /\ UNCHANGED product_cache
   /\ UNCHANGED session_vars

NextIndex ==
   \/ \E now \in Clock :
         \E answers \in [1..UnindexedCount(catalog) -> IndexAnswers] :
            IndexProducts(answers, now)
   \/ \E answer \in { EmbedRaised, EmbedAnswer(<<3, 1>>) }, limit \in { 2 } :
         VectorSearch(answer, limit, TRUE)
   \/ \E answer \in { EmbedAnswer(<<3, 1>>) }, filters \in { [colors |-> <<"black">>] },
         limit \in { 2 } :
         HybridSearch(answer, filters, limit, TRUE)
   \/ \E max_results \in { 10 } : SearchByText(q_rolex, max_results, None, None, Some(2000))
   \/ \E max_results \in { 20 } : SearchByPriceRange(mens_watch, 1500, 2500, max_results)
   \/ Return

SpecIndex == InitVector /\ [][NextIndex]_vars

\* the searches of the core
Searches ==
   { "vector_search", "hybrid_search", "search_products_by_text",
     "search_products_by_price_range" }

\* the answer of the embedding model for the product at position i of the
\* collection as index_products found it
AnswerFor(docs, answers, i) ==
   answers[Cardinality({ j \in 1..i : Unindexed(docs[j]) })]

\* the product was written an embedding and nothing else of it was changed
OnlyEmbedded(before, after, answer, now) ==
   /\ DOMAIN after = DOMAIN before \cup { "searchable_text", "indexed_at" }
   /\ \A field \in DOMAIN before \ { "text_embedding", "searchable_text", "indexed_at" } :
         after[field] = before[field]
   /\ after["text_embedding"] = Some(answer.embedding)
   /\ after["indexed_at"] = now

\* what a run of index_products may do to the collection
IndexFrame ==
   /\ Len(catalog') = Len(catalog)
   /\ \A i \in 1..Len(catalog) :
         IF ~Unindexed(catalog[i]) THEN catalog'[i] = catalog[i]
         ELSE IF AnswerFor(catalog, args'.answers, i).raised
                 \/ AnswerFor(catalog, args'.answers, i).embedding = <<>>
         THEN catalog'[i] = catalog[i]
         ELSE OnlyEmbedded(catalog[i], catalog'[i],
                           AnswerFor(catalog, args'.answers, i), args'.now)

\* C25: index_products leaves a product that has a text_embedding as it is,
\* and on a product without one sets text_embedding, searchable_text and
\* indexed_at and nothing else, and that only if an embedding was obtained;
\* vector_search, hybrid_search, search_products_by_text and
\* search_products_by_price_range leave the collection unchanged
C25_OnlyEmbeddingsWritten ==
   [][/\ (op = "idle" /\ op' \in Searches) => catalog' = catalog
      /\ (op = "idle" /\ op' = "index_products") => IndexFrame]_vars

\* a run has indexed one product, left another without an embedding, next
\* to a product that had its embedding before
C25_PartlyIndexed ==
   /\ op = "index_products"
   /\ \E i, j, k \in 1..Len(catalog) :
         /\ "indexed_at" \in DOMAIN catalog[i]
         /\ Unindexed(catalog[j])
         /\ ~Unindexed(catalog[k]) /\ "indexed_at" \notin DOMAIN catalog[k]

(***************************************************************************)
(* enhanced_backend_tool_classifier.py: the answer built of the results    *)
(***************************************************************************)
\* a product as the vector search answers it
SearchResult(name, brand, price, url, image_urls) ==
   [name |-> name, brand |-> brand, price |-> price, url |-> url,
    image_urls |-> image_urls]

\* images[0] if images else None
PrimaryImage(product) ==
   IF product.image_urls # <<>> THEN Some(product.image_urls[1]) ELSE None

\* image_info: an image of the product and its caption
ImageInfo(product, image_url) ==
   [image_url |-> image_url,
    caption |-> <<product.brand, product.name, product.price, product.url>>,
    product_name |-> product.name, brand |-> product.brand, price |-> product.price,
    url |-> product.url]

\* product_info: the product for reference, with or without an image
ProductInfo(product) ==
   [name |-> product.name, brand |-> product.brand, price |-> product.price,
    url |-> product.url, image_url |-> PrimaryImage(product)]

\* every product of the list is given an entry, with or without an image
ImagesToSend_all(products) ==
   [i \in 1..Len(products) |->
       ImageInfo(products[i], IF IsNone(PrimaryImage(products[i])) THEN "none"
                              ELSE Get(PrimaryImage(products[i])))]

\* the loop over the products: an entry for each product with an image
RECURSIVE ImagesToSend(_)
ImagesToSend(products) ==
   IF products = <<>> THEN <<>>
   ELSE (IF ~IsNone(PrimaryImage(Head(products)))
         THEN <<ImageInfo(Head(products), Get(PrimaryImage(Head(products))))>>
         ELSE <<>>)
        \o ImagesToSend(Tail(products))

FormattedProducts(products) == [i \in 1..Len(products) |-> ProductInfo(products[i])]

TopResults == 3

\* EnhancedBackendToolClassifier._format_product_response
format_product_response(search_results) ==
   IF search_results = <<>>
   THEN [message |-> "no_watches", products |-> <<>>, has_results |-> FALSE,
         total_found |-> None, images_to_send |-> <<>>]
   ELSE [message |-> "found", products |-> FormattedProducts(Slice(search_results, 0, TopResults)),
         has_results |-> TRUE, total_found |-> Some(Len(search_results)),
         images_to_send |-> ImagesToSend(Slice(search_results, 0, TopResults))]

u_a == <<"a">>

u_b == <<"b">>

u_c == <<"c">>

u_d == <<"d">>

u_e == <<"e">>

FormatResults ==
   { SearchResult(n_rolex_sub, b_rolex, p2000, u_a, <<"a1", "a2">>),
     SearchResult(n_rolex_oyster, b_rolex, p900, u_b, <<>>),
     SearchResult(n_plain_fossil, b_fossil, p1500, u_c, <<"c1">>),
     SearchResult(n_rolex_fossil, b_fossil, p2500, u_d, <<"d1", "d2">>),
     SearchResult(n_classic_watch, b_rolex, p1000, u_e, <<>>) }

MaxRanked == 4

RankedLists == SeqsWithoutRepetition(FormatResults, MaxRanked)

\* classifier._format_product_response(search_results)
FormatProductResponse(search_results) ==
   /\ op = "idle"
   /\ op' = "format_product_response"
   /\ args' = [search_results |-> search_results]
   /\ result' = format_product_response(search_results)
   /\ UNCHANGED <<catalog, product_cache>>
   /\ UNCHANGED session_vars

NextFormat ==
   \/ \E search_results \in RankedLists : FormatProductResponse(search_results)
   \/ Return

SpecFormat == Init /\ [][NextFormat]_vars

\* the positions among the first three results whose product has an image
WithImage ==
   { i \in 1..Min(3, Len(args.search_results)) : Len(args.search_results[i].image_urls) > 0 }

\* C23: for a ranked list that is not empty, images_to_send lists, in the
\* order of the ranking, the products among the first three results that
\* have at least one image, each with its first image only; a product
\* without images has no entry and is still counted in total_found
C23_FirstImageOfTopThree ==
   (op = "format_product_response" /\ args.search_results # <<>>)
   => /\ Len(result.images_to_send) = Cardinality(WithImage)
      /\ \A k \in 1..Len(result.images_to_send) :
            \E i \in WithImage :
               /\ Cardinality({ j \in WithImage : j < i }) = k - 1
               /\ result.images_to_send[k].product_name = args.search_results[i].name
               /\ result.images_to_send[k].image_url = args.search_results[i].image_urls[1]
      /\ result.total_found = Some(Len(args.search_results))

\* four results: one of the first three has no image, another has two
C23_ImagelessAmongTop ==
   /\ op = "format_product_response"
   /\ Len(args.search_results) = 4
   /\ args.search_results[2].image_urls = <<>>
   /\ Len(args.search_results[3].image_urls) = 2
   /\ Len(args.search_results[4].image_urls) > 0
   /\ Len(result.images_to_send) = 2

(***************************************************************************)
(* auto_ai_watch_enhancer.py: the gender of a product                      *)
(***************************************************************************)
MensTerms == { <<"m","e","n">>, <<"m","a","l","e">>, <<"g","e","n","t","l","e","m","a","n">> }

WomensTerms == { <<"w","o","m","e","n">>, <<"f","e","m","a","l","e">>, <<"l","a","d","i","e","s">>, <<"l","a","d","y">> }

\* clean_gender(gender): gender is None for a value that is no text
clean_gender(gender) ==
   IF ~Truthy(gender) THEN "unisex"
   ELSE IF \E term \in MensTerms : IsSubstring(term, Strip(Lower(Get(gender))))
   THEN "mens"
   ELSE IF \E term \in WomensTerms : IsSubstring(term, Strip(Lower(Get(gender))))
   THEN "womens"
   ELSE "unisex"

CleanGender(gender) ==
   /\ op = "idle"
   /\ op' = "clean_gender"
   /\ args' = [gender |-> gender]
   /\ result' = [value |-> clean_gender(gender)]
   /\ UNCHANGED <<catalog, product_cache>>
   /\ UNCHANGED session_vars

GenderWords ==
   MensTerms \cup WomensTerms
      \cup { <<"M","e","n">>, <<"W","o","m","e","n">>, <<"F","e","m","a","l","e">>, <<"L","A","D","I","E","S">>, <<"u","n","i","s","e","x">>, <<"k","i","d","s">>, <<"b","o","y">>, <<"g","i","r","l">> }

\* the words alone, in a phrase, with an ending, and with blanks around them
GenderTexts ==
   { before \o word \o after :
        before \in { <<>>, <<" ">>, <<"f","o","r"," ">> },
        word \in GenderWords,
        after \in { <<>>, <<"s">>, <<" ">> } }

GenderInputs == { None, Some(<<>>) } \cup { Some(text) : text \in GenderTexts }

NextGender ==
   \/ \E gender \in GenderInputs : CleanGender(gender)
   \/ Return

SpecGender == Init /\ [][NextGender]_vars

\* C30: clean_gender returns "mens", "womens" or "unisex", and returns
\* "womens" for every input that contains 'women', 'female', 'ladies' or 'lady'
C30_WomensTerms ==
   op = "clean_gender"
   => /\ result.value \in { "mens", "womens", "unisex" }
      /\ (/\ Truthy(args.gender)
          /\ \E term \in WomensTerms : IsSubstring(term, Get(args.gender)))
         => result.value = "womens"

====
